---- MODULE Spec2Model ----
(***************************************************************************)
(* Model of the resume-text section parser (src/src/utils/resume_parser.py)*)
(* and of the web application that serves it (src/career_advisor).         *)
(* A string is a sequence of characters; a character is a TLA+ string of   *)
(* one ASCII character, or the code-point name of a non-ASCII character    *)
(* ("<U+2022>" is the bullet, "<U+00A7>" the section sign).                *)
(***************************************************************************)
EXTENDS Integers, Sequences, FiniteSets, TLC

VARIABLES
    raw_text,   \* the argument of parse_resume
    pc,         \* "start" before the call, "done" after it has returned; "web" while
                \* the web process runs its request threads and "respond" while it
                \* sends a response, "rag" and "calls" with threads
    mode,       \* "none", then "single" or "multi": the branch parse_resume_enhanced took
    parsed,     \* the record parse_resume returned (<<>> before the call)
    skill,      \* the argument of the first clean_skill call
    cleanings,  \* the results of the successive clean_skill calls
    analysis,   \* the record analyze_resume_quality returned (<<>> before the call)
    pdf,        \* the document extract_text_from_pdf reads and the locals of that call
    calls,      \* the frames of the concurrent parse_resume calls, one per thread
    header_line,   \* the argument of is_section_header
    header_result, \* the value is_section_header returned (<<>> before the call)
    service,    \* the attributes of rag_service, the RAGService of the web process
    sessions,   \* the Django session of each browser: a partial mapping of keys
    response,   \* the request served and the response the view gave it, until it is sent
    uploads,    \* the names of the files each browser has uploaded, in order
    rag_calls,  \* the frames of the upload_resume requests and of the initialize_rag
                \* calls they make, one per thread
    pending,    \* the locals of the view each browser's request is in, one per browser
    requests,   \* the number of requests the web process has received
    files       \* for each file under media/resumes the chunks it holds (<<>> if there
                \* is no such file)

\* the state of the web application
web_vars == <<service, sessions, response, uploads, rag_calls, pending, requests, files>>

vars == <<raw_text, pc, mode, parsed, skill, cleanings, analysis, pdf, calls, header_line,
          header_result, web_vars>>

----------------------------------------------------------------------------
(* Characters and the character classes of Python's str methods and re.    *)

UpperSeq == <<"A", "B", "C", "D", "E", "F", "G", "H", "I", "J", "K", "L", "M",
              "N", "O", "P", "Q", "R", "S", "T", "U", "V", "W", "X", "Y", "Z">>
LowerSeq == <<"a", "b", "c", "d", "e", "f", "g", "h", "i", "j", "k", "l", "m",
              "n", "o", "p", "q", "r", "s", "t", "u", "v", "w", "x", "y", "z">>
Upper == {UpperSeq[i] : i \in 1..26}
Lower == {LowerSeq[i] : i \in 1..26}
Digit == {"0", "1", "2", "3", "4", "5", "6", "7", "8", "9"}
Letter == Upper \cup Lower
\* \w of re on str patterns, within the model's alphabet
WordChar == Letter \cup Digit \cup {"_"}
\* \s of re, and the whitespace of str.strip() and str.split()
Space == {" ", "\n", "\t"}
BULLET == "<U+2022>"
SECTION_SIGN == "<U+00A7>"

LowerMap == [c \in Upper |-> LowerSeq[CHOOSE i \in 1..26 : UpperSeq[i] = c]]
LowerChar(c) == IF c \in Upper THEN LowerMap[c] ELSE c

\* str.lower()
lower(s) == [i \in 1..Len(s) |-> LowerChar(s[i])]

\* s[a-1:b-1] of Python, with 1-based a and exclusive b
Slice(s, a, b) == IF b <= a THEN <<>> ELSE SubSeq(s, a, b - 1)

\* the least and the greatest element of a non-empty set of integers
Min(S) == CHOOSE x \in S : \A y \in S : x <= y
Max(S) == CHOOSE x \in S : \A y \in S : x >= y

\* the end (exclusive) of the longest run of characters of class C starting at i
RunEnd(s, i, C) ==
    LET out == {j \in i..Len(s) : s[j] \notin C}
    IN IF out /= {} THEN Min(out) ELSE IF i > Len(s) THEN i ELSE Len(s) + 1

\* the end (exclusive) of the longest run of characters outside C starting at i
RunEndNot(s, i, C) ==
    LET in == {j \in i..Len(s) : s[j] \in C}
    IN IF in /= {} THEN Min(in) ELSE IF i > Len(s) THEN i ELSE Len(s) + 1

\* the start of the longest run of characters of class C ending before i
RunStart(s, i, C) ==
    LET out == {j \in 1..(i - 1) : s[j] \notin C}
    IN IF out /= {} THEN Max(out) + 1 ELSE IF i < 1 THEN i ELSE 1

\* str.strip()
strip(s) ==
    LET a == RunEnd(s, 1, Space)
    IN IF a > Len(s) THEN <<>> ELSE Slice(s, a, RunStart(s, Len(s) + 1, Space))

\* s[i:].startswith(sub), 1-based i
StartsWithAt(s, i, sub) ==
    /\ i + Len(sub) - 1 <= Len(s)
    /\ \A k \in 1..Len(sub) : s[i + k - 1] = sub[k]

\* the same under re.IGNORECASE, for an upper-case keyword
StartsWithAtNoCase(s, i, sub) ==
    /\ i + Len(sub) - 1 <= Len(s)
    /\ \A k \in 1..Len(sub) : LowerChar(s[i + k - 1]) = LowerChar(sub[k])

\* sub in s
Contains(s, sub) == \E i \in 1..(Len(s) - Len(sub) + 1) : StartsWithAt(s, i, sub)

\* first index >= i of character c in s, or 0
IndexFrom(s, i, c) ==
    LET at == {j \in i..Len(s) : s[j] = c}
    IN IF at = {} THEN 0 ELSE Min(at)

\* str.split(sep) for a one-character separator: empty pieces are kept
RECURSIVE SplitFrom(_, _, _)
SplitFrom(s, i, sep) ==
    LET j == IndexFrom(s, i, sep)
    IN IF j = 0 THEN <<Slice(s, i, Len(s) + 1)>>
       ELSE <<Slice(s, i, j)>> \o SplitFrom(s, j + 1, sep)
split(s, sep) == SplitFrom(s, 1, sep)

\* str.split(): pieces between whitespace runs, none of them empty
RECURSIVE SplitWsFrom(_, _)
SplitWsFrom(s, i) ==
    LET a == RunEnd(s, i, Space)
    IN IF a > Len(s) THEN <<>>
       ELSE LET b == RunEndNot(s, a, Space)
            IN <<Slice(s, a, b)>> \o SplitWsFrom(s, b)
split_ws(s) == SplitWsFrom(s, 1)

\* [f(x) for x in xs if keep(x)]
SelectMap(xs, keep(_), f(_)) ==
    LET ys == SelectSeq(xs, keep) IN [i \in 1..Len(ys) |-> f(ys[i])]

\* list(dict.fromkeys(xs)): the first occurrence of each element, in order
RECURSIVE DedupFrom(_, _)
DedupFrom(xs, seen) ==
    IF xs = <<>> THEN <<>>
    ELSE IF Head(xs) \in seen THEN DedupFrom(Tail(xs), seen)
         ELSE <<Head(xs)>> \o DedupFrom(Tail(xs), seen \cup {Head(xs)})
\* a variant that keeps every occurrence
fromkeys_keeping_duplicates(xs) == xs
fromkeys(xs) == DedupFrom(xs, {})

\* xs.extend(ys) over a list of lists
RECURSIVE Flatten(_)
Flatten(xss) == IF xss = <<>> THEN <<>> ELSE Head(xss) \o Flatten(Tail(xss))

Range(xs) == {xs[i] : i \in 1..Len(xs)}

NonEmptyStr(s) == s /= <<>>
StripNonEmpty(s) == strip(s) /= <<>>
Identity(x) == x


UpperMap == [c \in Lower |-> UpperSeq[CHOOSE i \in 1..26 : LowerSeq[i] = c]]
UpperChar(c) == IF c \in Lower THEN UpperMap[c] ELSE c

\* str.upper()
upper(s) == [i \in 1..Len(s) |-> UpperChar(s[i])]

\* str.title(): a letter after a non-letter is upper-cased, any other letter lower-cased
title(s) ==
    [i \in 1..Len(s) |->
        IF i = 1 \/ s[i - 1] \notin Letter THEN UpperChar(s[i]) ELSE LowerChar(s[i])]

\* str.isupper(): at least one cased character, and no lower-case one
isupper(s) == (\E i \in 1..Len(s) : s[i] \in Upper) /\ (\A i \in 1..Len(s) : s[i] \notin Lower)

\* re.sub(r'\s+', ' ', s)
RECURSIVE CollapseWsFrom(_, _)
CollapseWsFrom(s, i) ==
    LET w == RunEndNot(s, i, Space)
    IN IF w > Len(s) THEN Slice(s, i, w)
       ELSE Slice(s, i, w) \o <<" ">> \o CollapseWsFrom(s, RunEnd(s, w, Space))
CollapseWs(s) == CollapseWsFrom(s, 1)

----------------------------------------------------------------------------
(* clean_line, is_section_header and the two section strategies            *)

\* the characters re.sub(r'[^\w\s\.\-\+\&\@\#\(\)]', '', line) keeps
KeptByCleanLine == WordChar \cup Space \cup {".", "-", "+", "&", "@", "#", "(", ")"}

KeepCleanLineChar(c) == c \in KeptByCleanLine

clean_line(line) == strip(SelectSeq(CollapseWs(line), KeepCleanLineChar))

section_headers ==
    {<<"e", "d", "u", "c", "a", "t", "i", "o", "n">>,
     <<"e", "x", "p", "e", "r", "i", "e", "n", "c", "e">>,
     <<"s", "k", "i", "l", "l", "s">>,
     <<"p", "r", "o", "j", "e", "c", "t", "s">>,
     <<"w", "o", "r", "k">>,
     <<"e", "m", "p", "l", "o", "y", "m", "e", "n", "t">>,
     <<"a", "c", "a", "d", "e", "m", "i", "c">>,
     <<"q", "u", "a", "l", "i", "f", "i", "c", "a", "t", "i", "o", "n", "s">>,
     <<"c", "e", "r", "t", "i", "f", "i", "c", "a", "t", "i", "o", "n", "s">>,
     <<"l", "a", "n", "g", "u", "a", "g", "e", "s">>,
     <<"i", "n", "t", "e", "r", "e", "s", "t", "s">>,
     <<"a", "c", "h", "i", "e", "v", "e", "m", "e", "n", "t", "s">>,
     <<"a", "w", "a", "r", "d", "s">>,
     <<"p", "u", "b", "l", "i", "c", "a", "t", "i", "o", "n", "s">>,
     <<"r", "e", "f", "e", "r", "e", "n", "c", "e", "s">>,
     <<"c", "o", "n", "t", "a", "c", "t">>}

\* re.match(r'^[A-Z][A-Z\s]+$', s) on a stripped line
MatchesCapsPattern(s) ==
    /\ Len(s) >= 2
    /\ s[1] \in Upper
    /\ \A i \in 2..Len(s) : s[i] \in Upper \cup Space

HeaderMaxWords == 4

\* a variant without the test on the number of words
is_section_header_any_length(line) ==
    LET line_clean == strip(line)
    IN \/ lower(line_clean) \in section_headers
       \/ isupper(line_clean)
       \/ MatchesCapsPattern(line_clean)

is_section_header(line) ==
    LET line_clean == strip(line)
    IN \/ lower(line_clean) \in section_headers
       \/ /\ Len(split_ws(line_clean)) <= HeaderMaxWords
          /\ (isupper(line_clean) \/ MatchesCapsPattern(line_clean))

variations(section_name) ==
    <<upper(section_name), title(section_name), lower(section_name),
      upper(section_name) \o <<"S">>, title(section_name) \o <<"S">> >>

\* the loop of extract_section_simple from line i on
RECURSIVE SimpleLoop(_, _, _, _, _)
SimpleLoop(lines, i, vs, found_section, section) ==
    IF i > Len(lines) THEN section
    ELSE LET line == lines[i]
             line_clean == strip(line)
         IN IF \E k \in 1..Len(vs) : Contains(line_clean, vs[k])
            THEN SimpleLoop(lines, i + 1, vs, TRUE, section)
            ELSE IF ~found_section THEN SimpleLoop(lines, i + 1, vs, FALSE, section)
            ELSE IF is_section_header(line) THEN section
            ELSE IF line_clean /= <<>>
                 THEN SimpleLoop(lines, i + 1, vs, TRUE, Append(section, line_clean))
                 ELSE SimpleLoop(lines, i + 1, vs, TRUE, section)

\* a variant that tests is_section_header before the section's name: collection ends at
\* the first header line after the section was found, whatever it names
extract_section_simple_header_test_first(lines, section_name) ==
    LET vs == variations(section_name)
        Naming(l) == \E k \in 1..Len(vs) : Contains(strip(l), vs[k])
        named == {i \in 1..Len(lines) : Naming(lines[i])}
        f == Min(named)
        hs == {h \in (f + 1)..Len(lines) : is_section_header(lines[h])}
        e == IF hs = {} THEN Len(lines) + 1 ELSE Min(hs)
        Keep(l) == ~Naming(l) /\ strip(l) /= <<>>
    IN IF named = {} THEN <<>>
       ELSE SelectMap(SubSeq(lines, f + 1, e - 1), Keep, strip)

extract_section_simple(lines, section_name) ==
    SimpleLoop(lines, 1, variations(section_name), FALSE, <<>>)

\* the loop of extract_section_advanced from line i on
RECURSIVE AdvancedLoop(_, _, _, _, _)
AdvancedLoop(lines, i, section_keywords, found_section, section) ==
    IF i > Len(lines) THEN section
    ELSE LET line == lines[i]
             line_lower == strip(lower(line))
         IN IF \E k \in 1..Len(section_keywords) : Contains(line_lower, section_keywords[k])
            THEN AdvancedLoop(lines, i + 1, section_keywords, TRUE, section)
            ELSE IF ~found_section
                 THEN AdvancedLoop(lines, i + 1, section_keywords, FALSE, section)
            ELSE IF is_section_header(line) THEN section
            ELSE IF strip(line) /= <<>>
                 THEN AdvancedLoop(lines, i + 1, section_keywords, TRUE,
                                   Append(section, strip(line)))
                 ELSE AdvancedLoop(lines, i + 1, section_keywords, TRUE, section)

\* the comprehension returned by extract_section_advanced
CleanedSection(section) == SelectMap(section, StripNonEmpty, clean_line)

extract_section_advanced(lines, section_keywords) ==
    CleanedSection(AdvancedLoop(lines, 1, section_keywords, FALSE, <<>>))

----------------------------------------------------------------------------
(* clean_skill                                                             *)

AND == <<"a", "n", "d">>
OR == <<"o", "r">>
AMP == <<"&">>
Conjunctions == <<AND, OR, AMP>>

\* re.sub(r'^(and|or|&)\s+', '', skill, flags=re.IGNORECASE)
StripLeadingConjunction(s) ==
    LET hits == {k \in 1..Len(Conjunctions) :
                    /\ StartsWithAtNoCase(s, 1, Conjunctions[k])
                    /\ Len(Conjunctions[k]) < Len(s)
                    /\ s[Len(Conjunctions[k]) + 1] \in Space}
    IN IF hits = {} THEN s
       ELSE LET k == CHOOSE h \in hits : \A g \in hits : h <= g
            IN Slice(s, RunEnd(s, Len(Conjunctions[k]) + 1, Space), Len(s) + 1)

\* re.sub(r'\s+(and|or|&)$', '', skill, flags=re.IGNORECASE); $ also matches before a
\* final newline, which the substitution then leaves in place
StripTrailingConjunction(s) ==
    LET e == IF Len(s) >= 1 /\ s[Len(s)] = "\n" THEN {Len(s), Len(s) + 1} ELSE {Len(s) + 1}
        hits == {<<a, b>> \in (1..Len(s)) \X e :
                    /\ s[a] \in Space
                    /\ \E k \in 1..Len(Conjunctions) :
                          LET c == Conjunctions[k]
                          IN /\ b - Len(c) > a
                             /\ StartsWithAtNoCase(s, b - Len(c), c)
                             /\ RunEnd(s, a, Space) = b - Len(c)}
    IN IF hits = {} THEN s
       ELSE LET h == CHOOSE x \in hits : \A y \in hits : x[1] < y[1] \/ (x[1] = y[1] /\ x[2] >= y[2])
            IN Slice(s, 1, h[1]) \o Slice(s, h[2], Len(s) + 1)

\* the end (exclusive) of a match of \d+\.?\d* starting at i, where s[i] is a digit
NumberEnd(s, i) ==
    LET a == RunEnd(s, i, Digit)
    IN IF a <= Len(s) /\ s[a] = "." THEN RunEnd(s, a + 1, Digit) ELSE a

\* re.sub(r'\s+\d+\.?\d*', '', skill)
RECURSIVE StripNumbersFrom(_, _)
StripNumbersFrom(s, i) ==
    LET a == RunEndNot(s, i, Space)
        w == RunEnd(s, a, Space)
    IN IF a > Len(s) THEN Slice(s, i, a)
       ELSE IF w <= Len(s) /\ s[w] \in Digit
            THEN Slice(s, i, a) \o StripNumbersFrom(s, NumberEnd(s, w))
            ELSE Slice(s, i, w) \o StripNumbersFrom(s, w)
StripNumbers(s) == StripNumbersFrom(s, 1)

YearDigits == 4

\* re.sub(r'\s+\d{4}', '', skill)
RECURSIVE StripYearsFrom(_, _)
StripYearsFrom(s, i) ==
    LET a == RunEndNot(s, i, Space)
        w == RunEnd(s, a, Space)
    IN IF a > Len(s) THEN Slice(s, i, a)
       ELSE IF RunEnd(s, w, Digit) - w >= YearDigits
            THEN Slice(s, i, a) \o StripYearsFrom(s, w + YearDigits)
            ELSE Slice(s, i, w) \o StripYearsFrom(s, w)
StripYears(s) == StripYearsFrom(s, 1)

clean_skill(s) ==
    strip(CollapseWs(StripYears(StripNumbers(
        StripTrailingConjunction(StripLeadingConjunction(s))))))


----------------------------------------------------------------------------
(* extract_skill_terms: re.findall of four patterns                        *)

IsWordAt(s, i) == i >= 1 /\ i <= Len(s) /\ s[i] \in WordChar

\* \b at the position before s[i]
Boundary(s, i) == IsWordAt(s, i - 1) /= IsWordAt(s, i)

\* re.findall for a pattern whose match at i, if any, ends (exclusive) at M(s, i) > i;
\* M(s, i) = 0 when the pattern does not match at i
RECURSIVE FindAllFrom(_, _, _)
FindAllFrom(M(_, _), s, i) ==
    LET starts == {j \in i..Len(s) : M(s, j) > j}
    IN IF starts = {} THEN <<>>
       ELSE LET j == Min(starts)
            IN <<Slice(s, j, M(s, j))>> \o FindAllFrom(M, s, M(s, j))

\* [A-Z][a-z]+ at i: its end, or 0
CapWordEnd(s, i) ==
    IF i <= Len(s) /\ s[i] \in Upper /\ RunEnd(s, i + 1, Lower) > i + 1
    THEN RunEnd(s, i + 1, Lower) ELSE 0

\* (?:\s+[A-Z][a-z]+)*\b after a capitalised word ending at e: each repetition is kept
\* only when the word it adds ends at a word boundary
RECURSIVE CapChainEnd(_, _)
CapChainEnd(s, e) ==
    LET w == RunEnd(s, e, Space)
        e2 == IF w > e THEN CapWordEnd(s, w) ELSE 0
    IN IF e2 /= 0 /\ ~IsWordAt(s, e2) THEN CapChainEnd(s, e2) ELSE e

\* \b[A-Z][a-z]+(?:\s+[A-Z][a-z]+)*\b
MatchCamelCase(s, i) ==
    LET e1 == CapWordEnd(s, i)
    IN IF Boundary(s, i) /\ e1 /= 0 /\ ~IsWordAt(s, e1) THEN CapChainEnd(s, e1) ELSE 0

AcronymMinLen == 2

\* \b[A-Z]{2,}\b
MatchAcronym(s, i) ==
    LET e == RunEnd(s, i, Upper)
    IN IF Boundary(s, i) /\ e - i >= AcronymMinLen /\ ~IsWordAt(s, e) THEN e ELSE 0

\* \b[a-z]+\.[a-z]+\b
MatchAbbreviation(s, i) ==
    LET a == RunEnd(s, i, Lower)
        b == RunEnd(s, a + 1, Lower)
    IN IF /\ Boundary(s, i)
          /\ a > i
          /\ a <= Len(s) /\ s[a] = "."
          /\ b > a + 1
          /\ ~IsWordAt(s, b)
       THEN b ELSE 0

\* \b[A-Z][a-z]+\s+[A-Z][a-z]+\b
MatchTwoWords(s, i) ==
    LET e1 == CapWordEnd(s, i)
        w == IF e1 /= 0 THEN RunEnd(s, e1, Space) ELSE 0
        e2 == IF e1 /= 0 /\ w > e1 THEN CapWordEnd(s, w) ELSE 0
    IN IF Boundary(s, i) /\ e2 /= 0 /\ ~IsWordAt(s, e2) THEN e2 ELSE 0

extract_skill_terms(text) ==
    FindAllFrom(MatchCamelCase, text, 1) \o FindAllFrom(MatchAcronym, text, 1)
        \o FindAllFrom(MatchAbbreviation, text, 1) \o FindAllFrom(MatchTwoWords, text, 1)

----------------------------------------------------------------------------
(* The skills extractors of the two modes                                  *)

\* line.split(':', 1)[1] when ':' is in the line, the line otherwise
AfterColon(line) ==
    LET j == IndexFrom(line, 1, ":")
    IN IF j = 0 THEN line ELSE Slice(line, j + 1, Len(line) + 1)

\* [part.strip() for part in line.split(sep) if part.strip()]
SplitParts(line, sep) == SelectMap(split(line, sep), StripNonEmpty, strip)

\* the separators of extract_skills_advanced, in the order they are tried
separators_advanced ==
    <<",", ";", "|", BULLET, "<U+00B7>", "<U+25AA>", "<U+25AB>", "<U+25E6>",
      "<U+2023>", "<U+2043>">>

\* the separators of extract_skill_items, in the order they are tried
separators_items == <<",", ";", "|", "&">>

\* the index of the first separator of seps that occurs in line, or 0
FirstSeparator(line, seps) ==
    LET hits == {k \in 1..Len(seps) : IndexFrom(line, 1, seps[k]) /= 0}
    IN IF hits = {} THEN 0 ELSE CHOOSE k \in hits : \A h \in hits : k <= h

AdvancedMaxWords == 3
ItemsMaxWords == 5

\* the candidates one line adds to the set of extract_skills_advanced
LineCandidates(line0) ==
    LET line == AfterColon(line0)
        k == FirstSeparator(line, separators_advanced)
    IN IF k /= 0 THEN SplitParts(line, separators_advanced[k])
       ELSE IF Len(split_ws(line)) <= AdvancedMaxWords THEN <<strip(line)>>
       ELSE extract_skill_terms(line)

\* the set `skills` of extract_skills_advanced after its first loop
SkillSet(skill_lines) ==
    UNION {Range(LineCandidates(skill_lines[i])) : i \in 1..Len(skill_lines)}

\* the orders in which iterating a Python set of strings can yield its elements:
\* the order depends on the strings' hashes, which are salted per process
RECURSIVE IterationOrders(_)
IterationOrders(S) ==
    IF S = {} THEN {<<>>}
    ELSE UNION {{<<x>> \o o : o \in IterationOrders(S \ {x})} : x \in S}

SkillMinLen == 1

KeepAdvancedSkill(s) == clean_skill(s) /= <<>> /\ Len(clean_skill(s)) > SkillMinLen

\* the second loop of extract_skills_advanced over the set, iterated in `order`, and
\* the final dict.fromkeys
CleanedSkills(order) == fromkeys(SelectMap(order, KeepAdvancedSkill, clean_skill))

\* the lists extract_skills_advanced can return, one per iteration order of its set
extract_skills_advanced(skill_lines) ==
    {CleanedSkills(order) : order \in IterationOrders(SkillSet(skill_lines))}

KeepItem(s) == clean_skill(s) /= <<>>

extract_skill_items(text) ==
    LET k == FirstSeparator(text, separators_items)
        skills == IF k /= 0 THEN SplitParts(text, separators_items[k])
                  ELSE IF Len(split_ws(text)) <= ItemsMaxWords THEN <<strip(text)>>
                  ELSE extract_skill_terms(text)
    IN SelectMap(skills, KeepItem, clean_skill)

\* the skill items of one bullet section of extract_skills_from_text
BulletSectionItems(section0) ==
    LET section == strip(section0)
    IN IF section = <<>> THEN <<>> ELSE extract_skill_items(AfterColon(section))

\* the list `skills` of extract_skills_from_text before the final dict.fromkeys
CollectedSkills(skills_text) ==
    LET bullet_sections == split(skills_text, BULLET)
    IN Flatten([i \in 1..Len(bullet_sections) |-> BulletSectionItems(bullet_sections[i])])

extract_skills_from_text(skills_text) == fromkeys(CollectedSkills(skills_text))

----------------------------------------------------------------------------
(* extract_projects_from_text and extract_bullet_points                    *)

TOOLS == <<"T", "o", "o", "l", "s">>

\* ([A-Z][A-Za-z\s]+)\s*<section sign>: the class run after the capital must end at the sign
MatchSectionSign(s, i) ==
    LET r == RunEnd(s, i + 1, Letter \cup Space)
    IN IF s[i] \in Upper /\ r > i + 1 /\ r <= Len(s) /\ s[r] = SECTION_SIGN
       THEN r + 1 ELSE 0

\* ([A-Z][A-Za-z\s]+)\s*Tools: the class run after the capital must end with "Tools",
\* be followed by the colon, and leave at least one character to the group
MatchTools(s, i) ==
    LET r == RunEnd(s, i + 1, Letter \cup Space)
    IN IF /\ s[i] \in Upper
          /\ r <= Len(s) /\ s[r] = ":"
          /\ r - Len(TOOLS) > i + 1
          /\ StartsWithAt(s, r - Len(TOOLS), TOOLS)
       THEN r + 1 ELSE 0

ProjectNameMinLen == 3

KeepProjectName(s) == Len(s) > ProjectNameMinLen

\* group 1 of a section-sign match: the match without the sign
SectionSignGroup(m) == strip(Slice(m, 1, Len(m)))

\* group 1 of a Tools match: the match without "Tools:"
ToolsGroup(m) == strip(Slice(m, 1, Len(m) - Len(TOOLS)))

\* the names the two project_patterns yield, pattern by pattern
PatternProjects(projects_text) ==
    LET g1 == FindAllFrom(MatchSectionSign, projects_text, 1)
        g2 == FindAllFrom(MatchTools, projects_text, 1)
    IN SelectSeq([i \in 1..Len(g1) |-> SectionSignGroup(g1[i])], KeepProjectName)
       \o SelectSeq([i \in 1..Len(g2) |-> ToolsGroup(g2[i])], KeepProjectName)

ProjectBulletMinLen == 10

KeepProjectBullet(s) == strip(s) /= <<>> /\ Len(strip(s)) > ProjectBulletMinLen

extract_projects_from_text(projects_text) ==
    LET projects == PatternProjects(projects_text)
    IN fromkeys(IF projects /= <<>> THEN projects
                ELSE SelectMap(split(projects_text, BULLET), KeepProjectBullet, strip))

BulletMinLen == 5

KeepBullet(s) == strip(s) /= <<>> /\ Len(strip(s)) > BulletMinLen

extract_bullet_points(text) == SelectMap(split(text, BULLET), KeepBullet, strip)


----------------------------------------------------------------------------
(* extract_contact_info: re.search of the email, phone and LinkedIn patterns *)

EmailLocalChars == Letter \cup Digit \cup {".", "_", "%", "+", "-"}
EmailDomainChars == Letter \cup Digit \cup {".", "-"}
\* the class [A-Z|a-z] of the pattern holds the bar as well
EmailTldChars == Letter \cup {"|"}
EmailTldMinLen == 2

\* the ends <<d, e>> of the matches of the email pattern that start at i: d the position
\* of the dot before the top-level domain, e the end (exclusive) of the match
EmailMatches(s, i) ==
    LET at == RunEnd(s, i, EmailLocalChars)
        dEnd == RunEnd(s, at + 1, EmailDomainChars)
    IN IF ~(Boundary(s, i) /\ at > i /\ at <= Len(s) /\ s[at] = "@") THEN {}
       ELSE {<<d, e>> \in ((at + 2)..(dEnd - 1)) \X ((at + 2)..(Len(s) + 1)) :
                /\ s[d] = "."
                /\ e - (d + 1) >= EmailTldMinLen
                /\ e <= RunEnd(s, d + 1, EmailTldChars)
                /\ Boundary(s, e)}

\* the end of the match the backtracking search finds first at i (the longest domain,
\* then the longest top-level domain), or 0
MatchEmail(s, i) ==
    LET ms == EmailMatches(s, i)
    IN IF ms = {} THEN 0
       ELSE (CHOOSE m \in ms :
                \A n \in ms : m[1] > n[1] \/ (m[1] = n[1] /\ m[2] >= n[2]))[2]

PhoneSeparators == {"-", "."} \cup Space

\* the position after an optional separator [-.\s]? at p, taken whenever present
SkipPhoneSeparator(s, p) == IF p <= Len(s) /\ s[p] \in PhoneSeparators THEN p + 1 ELSE p

AllDigits(s, a, n) == a + n - 1 <= Len(s) /\ \A k \in a..(a + n - 1) : s[k] \in Digit

UsAreaLen == 3
UsExchangeLen == 3
UsLineLen == 4

\* \b\d{3}[-.\s]?\d{3}[-.\s]?\d{4}\b
MatchUsPhone(s, i) ==
    LET p1 == SkipPhoneSeparator(s, i + UsAreaLen)
        p2 == SkipPhoneSeparator(s, p1 + UsExchangeLen)
        e == p2 + UsLineLen
    IN IF /\ Boundary(s, i)
          /\ AllDigits(s, i, UsAreaLen)
          /\ AllDigits(s, p1, UsExchangeLen)
          /\ AllDigits(s, p2, UsLineLen)
          /\ Boundary(s, e)
       THEN e ELSE 0

IntlCountryMaxLen == 3
IntlGroupMaxLen == 4

\* the ways \+\d{1,3}[-.\s]?\d{1,4}[-.\s]?\d{1,4}[-.\s]?\d{1,4}\b matches at i, each
\* <<n1, s1, n2, s2, n3, s3, n4>>: the digits of each group and whether each optional
\* separator is taken
IntlMatches(s, i) ==
    {m \in (1..IntlCountryMaxLen) \X {0, 1} \X (1..IntlGroupMaxLen) \X {0, 1}
            \X (1..IntlGroupMaxLen) \X {0, 1} \X (1..IntlGroupMaxLen) :
        LET a1 == i + 1
            a2 == a1 + m[1] + m[2]
            a3 == a2 + m[3] + m[4]
            a4 == a3 + m[5] + m[6]
            e == a4 + m[7]
        IN /\ AllDigits(s, a1, m[1])
           /\ m[2] = 1 => (a2 - 1 <= Len(s) /\ s[a2 - 1] \in PhoneSeparators)
           /\ AllDigits(s, a2, m[3])
           /\ m[4] = 1 => (a3 - 1 <= Len(s) /\ s[a3 - 1] \in PhoneSeparators)
           /\ AllDigits(s, a3, m[5])
           /\ m[6] = 1 => (a4 - 1 <= Len(s) /\ s[a4 - 1] \in PhoneSeparators)
           /\ AllDigits(s, a4, m[7])
           /\ Boundary(s, e)}

\* m is tried before n by the backtracking search: greedy groups, separators taken first
RECURSIVE TriedBefore(_, _, _)
TriedBefore(m, n, k) ==
    IF k > Len(m) THEN FALSE
    ELSE m[k] > n[k] \/ (m[k] = n[k] /\ TriedBefore(m, n, k + 1))

IntlEnd(i, m) == i + 1 + m[1] + m[2] + m[3] + m[4] + m[5] + m[6] + m[7]

MatchIntlPhone(s, i) ==
    IF s[i] /= "+" THEN 0
    ELSE LET ms == IntlMatches(s, i)
         IN IF ms = {} THEN 0
            ELSE IntlEnd(i, CHOOSE m \in ms : \A n \in ms : m = n \/ TriedBefore(m, n, 1))

LINKEDIN_PREFIX == <<"l", "i", "n", "k", "e", "d", "i", "n", ".", "c", "o", "m", "/", "i", "n", "/">>
LinkedinHandleChars == Letter \cup Digit \cup {"-"}

\* linkedin\.com/in/[A-Za-z0-9-]+
MatchLinkedin(s, i) ==
    LET h == i + Len(LINKEDIN_PREFIX)
    IN IF StartsWithAt(s, i, LINKEDIN_PREFIX) /\ RunEnd(s, h, LinkedinHandleChars) > h
       THEN RunEnd(s, h, LinkedinHandleChars) ELSE 0

\* re.search: the leftmost match, as <<text>>, or <<>> when the pattern matches nowhere
SearchFrom(M(_, _), s, i) ==
    LET starts == {j \in i..Len(s) : M(s, j) > j}
    IN IF starts = {} THEN <<>> ELSE <<Slice(s, Min(starts), M(s, Min(starts)))>>

\* a variant whose phone_patterns list has the international pattern first
SearchPhoneInternationalFirst(text) ==
    IF SearchFrom(MatchIntlPhone, text, 1) /= <<>> THEN SearchFrom(MatchIntlPhone, text, 1)
    ELSE SearchFrom(MatchUsPhone, text, 1)

\* the loop over phone_patterns: the first pattern that matches anywhere wins
SearchPhone(text) ==
    IF SearchFrom(MatchUsPhone, text, 1) /= <<>> THEN SearchFrom(MatchUsPhone, text, 1)
    ELSE SearchFrom(MatchIntlPhone, text, 1)

\* the dict of extract_contact_info: a key is present only when its pattern matched
extract_contact_info(text) ==
    LET found == [email |-> SearchFrom(MatchEmail, text, 1),
                  phone |-> SearchPhone(text),
                  linkedin |-> SearchFrom(MatchLinkedin, text, 1)]
    IN [k \in {f \in DOMAIN found : found[f] /= <<>>} |-> found[k][1]]


----------------------------------------------------------------------------
(* parse_resume_single_line                                                *)

EDUCATION == <<"E", "D", "U", "C", "A", "T", "I", "O", "N">>
EXPERIENCE == <<"E", "X", "P", "E", "R", "I", "E", "N", "C", "E">>
SKILLS == <<"S", "K", "I", "L", "L", "S">>
PROJECTS == <<"P", "R", "O", "J", "E", "C", "T", "S">>
CERTIFICATIONS == <<"C", "E", "R", "T", "I", "F", "I", "C", "A", "T", "I", "O", "N", "S">>
ACHIEVEMENTS == <<"A", "C", "H", "I", "E", "V", "E", "M", "E", "N", "T", "S">>
EXTRACURRICULAR == <<"E", "X", "T", "R", "A", "C", "U", "R", "R", "I", "C", "U", "L", "A", "R">>

\* the dict `patterns`: for each section its header keyword and the keywords of its
\* lookahead (the end of the string always ends a section)
patterns ==
    [education |-> [header |-> EDUCATION,
                    stops |-> {SKILLS, PROJECTS, CERTIFICATIONS, ACHIEVEMENTS}],
     skills |-> [header |-> SKILLS,
                 stops |-> {PROJECTS, CERTIFICATIONS, ACHIEVEMENTS}],
     projects |-> [header |-> PROJECTS,
                   stops |-> {CERTIFICATIONS, ACHIEVEMENTS, EXTRACURRICULAR}],
     certifications |-> [header |-> CERTIFICATIONS,
                         stops |-> {ACHIEVEMENTS, EXTRACURRICULAR}],
     achievements |-> [header |-> ACHIEVEMENTS, stops |-> {EXTRACURRICULAR}],
     extracurricular |-> [header |-> EXTRACURRICULAR, stops |-> {}]]

\* HEADER\s+ matches at i (case-insensitively): the header, then at least one whitespace
HeaderAt(s, i, header) ==
    /\ StartsWithAtNoCase(s, i, header)
    /\ i + Len(header) <= Len(s)
    /\ s[i + Len(header)] \in Space

\* the lookahead (?=STOP1|STOP2|...|$) holds at p; without re.MULTILINE, $ matches at the
\* end of the string and before a newline that ends it
LookaheadAt(s, p, stops) ==
    \/ p = Len(s) + 1
    \/ p = Len(s) /\ s[p] = "\n"
    \/ \E stop \in stops : StartsWithAtNoCase(s, p, stop)

\* the end of the lazy capture (.*?) that starts at q: the first position where the
\* lookahead holds
CaptureEnd(s, q, stops) == Min({p \in q..(Len(s) + 1) : LookaheadAt(s, p, stops)})

\* re.search(pattern, raw_text, re.IGNORECASE | re.DOTALL) from i on: <<match.group(1)>>
\* for the leftmost match, <<>> when there is none
SectionSearchFrom(s, i, header, stops) ==
    LET starts == {j \in i..Len(s) : HeaderAt(s, j, header)}
    IN IF starts = {} THEN <<>>
       ELSE LET q == RunEnd(s, Min(starts) + Len(header), Space)
            IN <<Slice(s, q, CaptureEnd(s, q, stops))>>

\* match.group(1).strip() of the section's pattern, as <<content>>, or <<>>
section_content(raw, section_name) ==
    LET m == SectionSearchFrom(raw, 1, patterns[section_name].header,
                               patterns[section_name].stops)
    IN IF m = <<>> THEN <<>> ELSE <<strip(m[1])>>

\* the value the loop over `patterns` leaves in parsed_data[section_name]
single_line_section(raw, section_name) ==
    LET m == section_content(raw, section_name)
    IN IF m = <<>> THEN <<>>
       ELSE IF section_name = "skills" THEN extract_skills_from_text(m[1])
       ELSE IF section_name = "projects" THEN extract_projects_from_text(m[1])
       ELSE extract_bullet_points(m[1])

\* the keys of parsed_data, in insertion order, when the metadata is computed
single_line_keys ==
    <<"contact", "education", "experience", "projects", "skills", "certifications",
      "achievements", "extracurricular", "raw_text">>

not_sections == {"contact", "raw_text", "metadata"}

\* a variant without the `if v` test
sections_found_unfiltered(data, keys) ==
    LET Listed(k) == k \notin not_sections IN SelectSeq(keys, Listed)

\* [k for k, v in data.items() if v and k not in ['contact', 'raw_text', 'metadata']]
sections_found(data, keys) ==
    LET Found(k) == k \notin not_sections /\ data[k] /= <<>>
    IN SelectSeq(keys, Found)

\* a variant that reports contact information whatever was extracted
contact_info_found_always(contact_info) == TRUE

\* bool(contact_info)
contact_info_found(contact_info) == DOMAIN contact_info /= {}

\* a variant with an entry for experience: the text that holds the EXPERIENCE keyword
single_line_experience_from_keyword(raw) ==
    IF Contains(raw, EXPERIENCE) THEN <<strip(raw)>> ELSE <<>>

\* 'experience': [] of parsed_data; `patterns` has no entry that could fill it
single_line_experience(raw) == <<>>

parse_resume_single_line(raw) ==
    LET parsed_data ==
            [contact |-> extract_contact_info(raw),
             education |-> single_line_section(raw, "education"),
             experience |-> single_line_experience(raw),
             projects |-> single_line_section(raw, "projects"),
             skills |-> single_line_section(raw, "skills"),
             certifications |-> single_line_section(raw, "certifications"),
             achievements |-> single_line_section(raw, "achievements"),
             extracurricular |-> single_line_section(raw, "extracurricular"),
             raw_text |-> raw]
    IN [k \in DOMAIN parsed_data \cup {"metadata"} |->
           IF k = "metadata"
           THEN [total_characters |-> Len(raw),
                 sections_found |-> sections_found(parsed_data, single_line_keys),
                 contact_info_found |-> contact_info_found(parsed_data.contact)]
           ELSE parsed_data[k]]

----------------------------------------------------------------------------
(* parse_resume_enhanced                                                   *)

SingleLineMaxLines == 3

\* len(raw_text.split('\n')) <= 3
is_single_line(raw) == Len(split(raw, "\n")) <= SingleLineMaxLines

\* [line.strip() for line in raw_text.split('\n') if line.strip()]
stripped_lines(raw) == SelectMap(split(raw, "\n"), StripNonEmpty, strip)

education_keywords ==
    <<<<"e", "d", "u", "c", "a", "t", "i", "o", "n">>,
      <<"a", "c", "a", "d", "e", "m", "i", "c">>,
      <<"q", "u", "a", "l", "i", "f", "i", "c", "a", "t", "i", "o", "n", "s">>,
      <<"d", "e", "g", "r", "e", "e">>,
      <<"u", "n", "i", "v", "e", "r", "s", "i", "t", "y">>,
      <<"c", "o", "l", "l", "e", "g", "e">>>>
experience_keywords ==
    <<<<"e", "x", "p", "e", "r", "i", "e", "n", "c", "e">>,
      <<"w", "o", "r", "k">>,
      <<"e", "m", "p", "l", "o", "y", "m", "e", "n", "t">>,
      <<"c", "a", "r", "e", "e", "r">>,
      <<"p", "r", "o", "f", "e", "s", "s", "i", "o", "n", "a", "l">>>>
projects_keywords ==
    <<<<"p", "r", "o", "j", "e", "c", "t", "s">>,
      <<"p", "r", "o", "j", "e", "c", "t">>,
      <<"p", "o", "r", "t", "f", "o", "l", "i", "o">>,
      <<"w", "o", "r", "k", "s">>,
      <<"a", "c", "h", "i", "e", "v", "e", "m", "e", "n", "t", "s">>>>
skills_keywords ==
    <<<<"s", "k", "i", "l", "l", "s">>,
      <<"t", "e", "c", "h", "n", "i", "c", "a", "l", " ", "s", "k", "i", "l", "l", "s">>,
      <<"t", "e", "c", "h", "n", "o", "l", "o", "g", "i", "e", "s">>,
      <<"p", "r", "o", "g", "r", "a", "m", "m", "i", "n", "g">>,
      <<"l", "a", "n", "g", "u", "a", "g", "e", "s">>,
      <<"t", "o", "o", "l", "s">>>>

\* a variant that tries the advanced strategy first
locate_section_advanced_first(lines, section_name, section_keywords) ==
    IF extract_section_advanced(lines, section_keywords) /= <<>>
    THEN extract_section_advanced(lines, section_keywords)
    ELSE extract_section_simple(lines, section_name)

\* the simple strategy, then the advanced one if the simple one found nothing
locate_section(lines, section_name, section_keywords) ==
    IF extract_section_simple(lines, section_name) /= <<>>
    THEN extract_section_simple(lines, section_name)
    ELSE extract_section_advanced(lines, section_keywords)

multi_line_keys == <<"education", "experience", "projects", "skills">>

\* parsed_data with its metadata, as parse_resume_enhanced assembles them
with_metadata(parsed_data, lines) ==
    [k \in DOMAIN parsed_data \cup {"metadata"} |->
        IF k = "metadata"
        THEN [total_lines |-> Len(lines),
              sections_found |-> sections_found(parsed_data, multi_line_keys),
              contact_info_found |-> contact_info_found(parsed_data.contact)]
        ELSE parsed_data[k]]

\* the records parse_resume_enhanced can return in multi-line mode, one for each list
\* extract_skills_advanced can return
parse_resume_multi_line(raw) ==
    LET lines == stripped_lines(raw)
        contact_info == extract_contact_info(raw)
        education == locate_section(lines, EDUCATION, education_keywords)
        experience == locate_section(lines, EXPERIENCE, experience_keywords)
        projects == locate_section(lines, PROJECTS, projects_keywords)
        skills_section == locate_section(lines, SKILLS, skills_keywords)
    IN {with_metadata([contact |-> contact_info,
                       education |-> education,
                       experience |-> experience,
                       projects |-> projects,
                       skills |-> skills,
                       raw_text |-> raw], lines) :
           skills \in extract_skills_advanced(skills_section)}

\* the records parse_resume can return
parse_resume(raw) ==
    IF is_single_line(raw) THEN {parse_resume_single_line(raw)}
    ELSE parse_resume_multi_line(raw)


----------------------------------------------------------------------------
(* analyze_resume_quality                                                  *)

DigitSeq == <<"0", "1", "2", "3", "4", "5", "6", "7", "8", "9">>

\* str(n) for a natural number n: its decimal digits
RECURSIVE str_int(_)
str_int(n) ==
    IF n < Len(DigitSeq) THEN <<DigitSeq[n + 1]>>
    ELSE str_int(n \div Len(DigitSeq)) \o <<DigitSeq[(n % Len(DigitSeq)) + 1]>>

\* parsed_data.get(key, default)
get(parsed_data, key, default) ==
    IF key \in DOMAIN parsed_data THEN parsed_data[key] ELSE default

\* a variant that takes a section for found as soon as the record has its key
section_found_if_present(parsed_data, key) == key \in DOMAIN parsed_data

\* `if parsed_data.get(key)`: the key is there and its list is not empty
section_found(parsed_data, key) == get(parsed_data, key, <<>>) /= <<>>

\* f'Skills found ({len(parsed_data["skills"])} skills)'
skills_strength(parsed_data) ==
    <<"S", "k", "i", "l", "l", "s", " ", "f", "o", "u", "n", "d", " ", "(">> \o str_int(Len(parsed_data.skills)) \o <<" ", "s", "k", "i", "l", "l", "s", ")">>

\* the four checks of analyze_resume_quality, in order: the key, the strength appended
\* when the section is found and the name appended to missing_sections when it is not
core_sections(parsed_data) ==
    <<[key |-> "education",
       strength |-> <<"E", "d", "u", "c", "a", "t", "i", "o", "n", " ", "i", "n", "f", "o", "r", "m", "a", "t", "i", "o", "n", " ", "f", "o", "u", "n", "d">>,
       missing |-> <<"E", "d", "u", "c", "a", "t", "i", "o", "n">>],
      [key |-> "experience",
       strength |-> <<"W", "o", "r", "k", " ", "e", "x", "p", "e", "r", "i", "e", "n", "c", "e", " ", "f", "o", "u", "n", "d">>,
       missing |-> <<"E", "x", "p", "e", "r", "i", "e", "n", "c", "e">>],
      [key |-> "projects",
       strength |-> <<"P", "r", "o", "j", "e", "c", "t", " ", "p", "o", "r", "t", "f", "o", "l", "i", "o", " ", "f", "o", "u", "n", "d">>,
       missing |-> <<"P", "r", "o", "j", "e", "c", "t", "s">>],
      [key |-> "skills",
       strength |-> IF section_found(parsed_data, "skills")
                    THEN skills_strength(parsed_data) ELSE <<>>,
       missing |-> <<"S", "k", "i", "l", "l", "s">>]>>

total_sections == 4
Percent == 100

\* a variant that divides in whole numbers before scaling
completeness_score_floor_first(found_sections) ==
    (found_sections \div total_sections) * Percent

\* (found_sections / total_sections) * 100: the quotients 0, 0.25, 0.5, 0.75 and 1 and
\* their products with 100 are exact in binary floating point, so the float equals this
\* whole number
completeness_score(found_sections) == (found_sections * Percent) \div total_sections

CompletenessThreshold == 75
SkillsMinCount == 5
ProjectsMinCount == 2

completeness_recommendation ==
    <<"C", "o", "n", "s", "i", "d", "e", "r", " ", "a", "d", "d", "i", "n", "g", " ", "m", "i", "s", "s", "i", "n", "g", " ", "s", "e", "c", "t", "i", "o", "n", "s", " ", "t", "o", " ", "i", "m", "p", "r", "o", "v", "e", " ", "r", "e", "s", "u", "m", "e", " ", "c", "o", "m", "p", "l", "e", "t", "e", "n", "e", "s", "s">>
skills_recommendation ==
    <<"A", "d", "d", " ", "m", "o", "r", "e", " ", "t", "e", "c", "h", "n", "i", "c", "a", "l", " ", "s", "k", "i", "l", "l", "s", " ", "t", "o", " ", "s", "h", "o", "w", "c", "a", "s", "e", " ", "y", "o", "u", "r", " ", "c", "a", "p", "a", "b", "i", "l", "i", "t", "i", "e", "s">>
projects_recommendation ==
    <<"I", "n", "c", "l", "u", "d", "e", " ", "m", "o", "r", "e", " ", "p", "r", "o", "j", "e", "c", "t", "s", " ", "t", "o", " ", "d", "e", "m", "o", "n", "s", "t", "r", "a", "t", "e", " ", "p", "r", "a", "c", "t", "i", "c", "a", "l", " ", "e", "x", "p", "e", "r", "i", "e", "n", "c", "e">>

\* a variant that also recommends at the threshold itself
needs_completeness_at_threshold(score) == score <= CompletenessThreshold

\* analysis['completeness_score'] < 75
needs_completeness(score) == score < CompletenessThreshold

\* the three `if` statements that append to analysis['recommendations']
recommendations(parsed_data, score) ==
    (IF needs_completeness(score) THEN <<completeness_recommendation>> ELSE <<>>)
        \o (IF Len(get(parsed_data, "skills", <<>>)) < SkillsMinCount
            THEN <<skills_recommendation>> ELSE <<>>)
        \o (IF Len(get(parsed_data, "projects", <<>>)) < ProjectsMinCount
            THEN <<projects_recommendation>> ELSE <<>>)

analyze_resume_quality(parsed_data) ==
    LET checks == core_sections(parsed_data)
        Found(c) == section_found(parsed_data, c.key)
        Missing(c) == ~section_found(parsed_data, c.key)
        Strength(c) == c.strength
        Name(c) == c.missing
        found_sections == Len(SelectSeq(checks, Found))
        score == completeness_score(found_sections)
    IN [completeness_score |-> score,
        missing_sections |-> SelectMap(checks, Missing, Name),
        recommendations |-> recommendations(parsed_data, score),
        strengths |-> SelectMap(checks, Found, Strength)]

----------------------------------------------------------------------------
(* extract_text_from_pdf and clean_pdf_text (src/src/utils/pdf_parser.py)  *)

\* re.sub(r'([a-z])([A-Z])', r'\1 \2', s), and the same with [.!?] for [a-z]: a space
\* between every character of class A and a character of class B that follows it (the
\* classes are disjoint, so no two matches overlap)
SpaceBetween(s, A, B) ==
    Flatten([i \in 1..Len(s) |->
                IF i > 1 /\ s[i - 1] \in A /\ s[i] \in B THEN <<" ", s[i]>> ELSE <<s[i]>>])

SentenceEnds == {".", "!", "?"}

\* re.sub(r'\b\d+\s*$', '', s, flags=re.MULTILINE) on a text without newline: the digits
\* that end the text, with the whitespace after them, go when a word boundary precedes
\* them
StripPageNumber(s) ==
    LET e == RunStart(s, Len(s) + 1, Space)
        d == RunStart(s, e, Digit)
    IN IF d < e /\ (d = 1 \/ s[d - 1] \notin WordChar) THEN Slice(s, 1, d) ELSE s

BulletLike ==
    {BULLET, "<U+00B7>", "<U+25AA>", "<U+25AB>", "<U+25E6>", "<U+2023>", "<U+2043>"}

\* re.sub(r'[<bullets>]\s*', '<U+2022> ', s) from position i on
RECURSIVE StandardizeBulletsFrom(_, _)
StandardizeBulletsFrom(s, i) ==
    LET b == RunEndNot(s, i, BulletLike)
    IN IF b > Len(s) THEN Slice(s, i, b)
       ELSE Slice(s, i, b) \o <<BULLET, " ">>
                \o StandardizeBulletsFrom(s, RunEnd(s, b + 1, Space))
StandardizeBullets(s) == StandardizeBulletsFrom(s, 1)

DashLike == {"-", "*", "+"}

\* re.sub(r'^\s*[-*+]\s*', '<U+2022> ', s, flags=re.MULTILINE) on a text without newline
DashToBullet(s) ==
    LET a == RunEnd(s, 1, Space)
    IN IF a <= Len(s) /\ s[a] \in DashLike
       THEN <<BULLET, " ">> \o Slice(s, RunEnd(s, a + 1, Space), Len(s) + 1)
       ELSE s

clean_pdf_text(text) ==
    strip(DashToBullet(StandardizeBullets(StripPageNumber(
        SpaceBetween(SpaceBetween(CollapseWs(text), Lower, Upper), SentenceEnds, Upper)))))

\* a variant that ends every page with a blank line
text_after_with_blank_lines(pages, n) ==
    Flatten([i \in 1..n |-> clean_pdf_text(pages[i]) \o <<"\n", "\n">>])

\* `text` after the loop has read the first n pages
text_after(pages, n) ==
    Flatten([i \in 1..n |-> clean_pdf_text(pages[i]) \o <<"\n">>])

\* a variant that returns what was read before the error
partial_text_on_error(text) == strip(text)

\* except Exception: return ""
text_on_error(text) == <<>>

\* document.failure says whether PyMuPDF raises: "none", "open" (fitz.open raises) or
\* "page" (reading page document.failed_page raises)
extract_text_from_pdf(document) ==
    IF document.failure = "none"
    THEN strip(text_after(document.pages, Len(document.pages)))
    ELSE IF document.failure = "open" THEN text_on_error(<<>>)
    ELSE text_on_error(text_after(document.pages, document.failed_page - 1))

----------------------------------------------------------------------------
(* career_advisor/views.py: the rule-based functions                       *)

ROLE_DATA_SCIENTIST == <<"d", "a", "t", "a", " ", "s", "c", "i", "e", "n", "t", "i", "s", "t">>
ROLE_SOFTWARE_ENGINEER == <<"s", "o", "f", "t", "w", "a", "r", "e", " ", "e", "n", "g", "i", "n", "e", "e", "r">>
ROLE_PRODUCT_MANAGER == <<"p", "r", "o", "d", "u", "c", "t", " ", "m", "a", "n", "a", "g", "e", "r">>
ROLE_DATA_ANALYST == <<"d", "a", "t", "a", " ", "a", "n", "a", "l", "y", "s", "t">>
ROLE_ML_ENGINEER == <<"m", "l", " ", "e", "n", "g", "i", "n", "e", "e", "r">>

\* the dict role_skills, as the sequence of its keys and the sequence of their values
role_names == <<ROLE_DATA_SCIENTIST, ROLE_SOFTWARE_ENGINEER, ROLE_PRODUCT_MANAGER, ROLE_DATA_ANALYST, ROLE_ML_ENGINEER>>
role_skill_lists ==
    <<<<<<"P", "y", "t", "h", "o", "n">>,
        <<"S", "Q", "L">>,
        <<"M", "a", "c", "h", "i", "n", "e", " ", "L", "e", "a", "r", "n", "i", "n", "g">>,
        <<"S", "t", "a", "t", "i", "s", "t", "i", "c", "s">>,
        <<"D", "a", "t", "a", " ", "V", "i", "s", "u", "a", "l", "i", "z", "a", "t", "i", "o", "n">>>>,
      <<<<"P", "r", "o", "g", "r", "a", "m", "m", "i", "n", "g">>,
        <<"D", "a", "t", "a", " ", "S", "t", "r", "u", "c", "t", "u", "r", "e", "s">>,
        <<"A", "l", "g", "o", "r", "i", "t", "h", "m", "s">>,
        <<"S", "y", "s", "t", "e", "m", " ", "D", "e", "s", "i", "g", "n">>,
        <<"T", "e", "s", "t", "i", "n", "g">>>>,
      <<<<"P", "r", "o", "d", "u", "c", "t", " ", "S", "t", "r", "a", "t", "e", "g", "y">>,
        <<"U", "s", "e", "r", " ", "R", "e", "s", "e", "a", "r", "c", "h">>,
        <<"D", "a", "t", "a", " ", "A", "n", "a", "l", "y", "s", "i", "s">>,
        <<"L", "e", "a", "d", "e", "r", "s", "h", "i", "p">>,
        <<"A", "g", "i", "l", "e">>>>,
      <<<<"S", "Q", "L">>,
        <<"E", "x", "c", "e", "l">>,
        <<"P", "y", "t", "h", "o", "n">>,
        <<"D", "a", "t", "a", " ", "V", "i", "s", "u", "a", "l", "i", "z", "a", "t", "i", "o", "n">>,
        <<"S", "t", "a", "t", "i", "s", "t", "i", "c", "a", "l", " ", "A", "n", "a", "l", "y", "s", "i", "s">>>>,
      <<<<"P", "y", "t", "h", "o", "n">>,
        <<"M", "a", "c", "h", "i", "n", "e", " ", "L", "e", "a", "r", "n", "i", "n", "g">>,
        <<"D", "e", "e", "p", " ", "L", "e", "a", "r", "n", "i", "n", "g">>,
        <<"M", "L", "O", "p", "s">>,
        <<"D", "a", "t", "a", " ", "E", "n", "g", "i", "n", "e", "e", "r", "i", "n", "g">>>>>>

\* role_skills.get(target_role.lower(), [])
target_skills_of(target_role) ==
    LET hits == {k \in 1..Len(role_names) : role_names[k] = lower(target_role)}
    IN IF hits = {} THEN <<>> ELSE role_skill_lists[CHOOSE k \in hits : TRUE]

PYTHON_WORD == <<"p", "y", "t", "h", "o", "n">>
SQL_WORD == <<"s", "q", "l">>
MACHINE_LEARNING_WORD == <<"m", "a", "c", "h", "i", "n", "e", " ", "l", "e", "a", "r", "n", "i", "n", "g">>
STATISTICS_WORD == <<"s", "t", "a", "t", "i", "s", "t", "i", "c", "s">>
DATA_VISUALIZATION_WORD == <<"d", "a", "t", "a", " ", "v", "i", "s", "u", "a", "l", "i", "z", "a", "t", "i", "o", "n">>
JAVA_WORD == <<"j", "a", "v", "a">>

\* the advice of generate_skill_recommendations for one skill, as the pieces of its
\* f-string
skill_recommendation(s) ==
    IF Contains(lower(s), PYTHON_WORD)
    THEN <<"Learn ", s, ": Start with Codecademy or freeCodeCamp Python courses">>
    ELSE IF Contains(lower(s), SQL_WORD)
    THEN <<"Learn ", s, ": Practice on LeetCode or HackerRank SQL challenges">>
    ELSE IF Contains(lower(s), MACHINE_LEARNING_WORD)
    THEN <<"Learn ", s, ": Take Andrew Ng's ML course on Coursera">>
    ELSE IF Contains(lower(s), STATISTICS_WORD)
    THEN <<"Learn ", s, ": Take Statistics courses on Khan Academy or edX">>
    ELSE IF Contains(lower(s), DATA_VISUALIZATION_WORD)
    THEN <<"Learn ", s, ": Master Tableau, Power BI, or Python libraries like Matplotlib">>
    ELSE <<"Develop ", s, ": Research online courses and practice projects">>

generate_skill_recommendations(missing_skills) ==
    [i \in 1..Len(missing_skills) |-> skill_recommendation(missing_skills[i])]

\* skill.lower() not in current_skills
is_missing(s, current_skills) == lower(s) \notin current_skills

\* the dict analyze_skills_gap_fallback returns; current_skills is kept as the set it is
\* built from, the order of list(current_skills) being that of Python's set iteration
analyze_skills_gap_fallback(resume_data, target_role) ==
    LET target_skills == target_skills_of(target_role)
        current_skills == Range(get(resume_data, "skills", <<>>))
        Missing(s) == is_missing(s, current_skills)
        missing_skills == SelectSeq(target_skills, Missing)
    IN [target_role |-> target_role,
        current_skills |-> current_skills,
        missing_skills |-> missing_skills,
        recommendations |-> generate_skill_recommendations(missing_skills)]

\* any(word in skill.lower() for skill in skills)
AnySkillHas(resume_data, word) ==
    \E s \in Range(get(resume_data, "skills", <<>>)) : Contains(lower(s), word)

suggest_career_paths(resume_data) ==
    LET career_paths ==
            (IF AnySkillHas(resume_data, PYTHON_WORD)
             THEN <<"Data Scientist", "Software Engineer">> ELSE <<>>)
            \o (IF AnySkillHas(resume_data, SQL_WORD)
                THEN <<"Data Analyst", "Business Intelligence Developer">> ELSE <<>>)
            \o (IF AnySkillHas(resume_data, MACHINE_LEARNING_WORD)
                THEN <<"ML Engineer", "AI Researcher">> ELSE <<>>)
            \o (IF AnySkillHas(resume_data, JAVA_WORD)
                THEN <<"Java Developer", "Android Developer">> ELSE <<>>)
    IN IF career_paths /= <<>> THEN career_paths
       ELSE <<"General Software Developer", "IT Consultant">>

SKILL_WORD == <<"s", "k", "i", "l", "l">>
GAP_WORD == <<"g", "a", "p">>
CAREER_WORD == <<"c", "a", "r", "e", "e", "r">>
PATH_WORD == <<"p", "a", "t", "h">>
RESUME_WORD == <<"r", "e", "s", "u", "m", "e">>

\* the answer of get_career_advice_fallback; the answer about the resume is given as the
\* pieces of its f-string
get_career_advice_fallback(question, resume_data) ==
    LET question_lower == lower(question)
    IN IF Contains(question_lower, SKILL_WORD) /\ Contains(question_lower, GAP_WORD)
       THEN <<"I can help you analyze skills gaps! Use the Skills Gap Analysis feature to see what skills you need for your target role.">>
       ELSE IF Contains(question_lower, CAREER_WORD) /\ Contains(question_lower, PATH_WORD)
       THEN <<"Great question! Use Career Path Suggestions to see what career paths align with your current skills and background.">>
       ELSE IF Contains(question_lower, RESUME_WORD)
       THEN <<"Your resume shows ", Len(get(resume_data, "skills", <<>>)), " skills and ",
              Len(get(resume_data, "projects", <<>>)),
              " projects. You're well-positioned for tech roles!">>
       ELSE IF Contains(question_lower, PYTHON_WORD)
       THEN IF AnySkillHas(resume_data, PYTHON_WORD)
            THEN <<"Great! You already have Python skills. Consider building more projects and learning advanced topics like Django, Flask, or data science libraries.">>
            ELSE <<"Python is a great skill to add! Start with basic syntax, then move to web development or data science depending on your interests.">>
       ELSE <<"I'm here to help with your career! You can ask me about skills, career paths, resume improvement, or use the interactive features above.">>

generate_learning_roadmap(resume_data) ==
    [python_path |->
         IF AnySkillHas(resume_data, PYTHON_WORD)
         THEN <<"Advanced Python (Decorators, Generators)", "Web Development (Django/Flask)",
                "Data Science Libraries (Pandas, NumPy)", "Machine Learning (Scikit-learn)">>
         ELSE <<>>,
     java_path |->
         IF AnySkillHas(resume_data, JAVA_WORD)
         THEN <<"Advanced Java (Collections, Streams)", "Spring Framework",
                "Microservices Architecture", "Cloud Deployment (AWS/Azure)">>
         ELSE <<>>,
     data_path |->
         IF AnySkillHas(resume_data, SQL_WORD)
         THEN <<"Advanced SQL (Window Functions)", "Data Visualization (Tableau, Power BI)",
                "Business Intelligence", "Data Engineering">>
         ELSE <<>>,
     general |->
         <<"Build portfolio projects", "Contribute to open source",
           "Network and attend tech meetups", "Stay updated with industry trends">>]

----------------------------------------------------------------------------
(* career_advisor/rag_service.py: RAGService                               *)

\* the attributes RAGService.__init__ sets; None is <<>> and a value v that may be None
\* is held as <<v>>; available is the module's flag RAG_AVAILABLE
NewService(available) ==
    [RAG_AVAILABLE |-> available,
     rag_pipeline |-> <<>>,
     current_resume_path |-> <<>>,
     current_resume_data |-> <<>>,
     model_cache |-> <<>>,
     global_model |-> <<>>]

\* os.path.join('media', 'resumes', resume_file.name), as its components
file_path_of(name) == <<"media", "resumes", name>>

\* the file a path names
file_name_of(resume_path) == resume_path[Len(resume_path)]

\* CareerRAGPipeline(resume_path, cached_model): the pipeline of the file at resume_path
\* with the model it was given; its retriever and chains are not represented
CareerRAGPipeline(resume_path, cached_model) ==
    [pdf_path |-> resume_path, model |-> cached_model]

\* _model_cache with one more entry
cache_put(model_cache, resume_hash, pipeline) ==
    [h \in DOMAIN model_cache \cup {resume_hash} |->
        IF h = resume_hash THEN pipeline ELSE model_cache[h]]

get_resume_data(svc) == svc.current_resume_data

is_available(svc) == svc.RAG_AVAILABLE /\ svc.rag_pipeline /= <<>>

\* the dict get_cache_info returns before its entries are evaluated
NoCacheInfo == [global_model_loaded |-> FALSE, cached_pipelines |-> 0, rag_available |-> FALSE]

\* get_cache_info when no other thread writes the service while its entries are evaluated
get_cache_info(svc) ==
    [global_model_loaded |-> svc.global_model /= <<>>,
     cached_pipelines |-> Cardinality(DOMAIN svc.model_cache),
     rag_available |-> is_available(svc)]

\* what analyze_skills_gap_rag and get_career_advice return when self.rag_pipeline is
\* pipeline at the call: an error when there is none or when the pipeline raises
\* (answers = FALSE), else what the pipeline made of its resume
pipeline_answer(pipeline, request, answers) ==
    IF pipeline = <<>> \/ ~answers THEN [error |-> "error"]
    ELSE [answer |-> [pipeline |-> pipeline[1], request |-> request]]

\* analyze_skills_gap_rag and get_career_advice on a service no other thread writes
ask_pipeline(svc, request, answers) == pipeline_answer(svc.rag_pipeline, request, answers)

----------------------------------------------------------------------------
(* career_advisor/views.py: the views                                      *)

\* "not value" for a value that is None or a dict
falsy(value) == value = <<>> \/ DOMAIN value[1] = {}

\* request.session.get(key)
session_get(session, key) == IF key \in DOMAIN session THEN <<session[key]>> ELSE <<>>

\* request.session[key] = value
session_set(session, key, value) ==
    [k \in DOMAIN session \cup {key} |-> IF k = key THEN value ELSE session[k]]

\* rag_service.get_resume_data() or request.session.get('resume_data')
a_or_b(a, b) == IF falsy(a) THEN b ELSE a

\* the resume data a view works on
resume_data_for(svc, session) ==
    a_or_b(get_resume_data(svc), session_get(session, "resume_data"))

redirect(view, to) == [view |-> view, status |-> "redirect", to |-> to, context |-> <<>>]

render(view, template, context) ==
    [view |-> view, status |-> "render", to |-> template, context |-> context]

JsonResponse(view, data) == [view |-> view, status |-> "json", to |-> "", context |-> data]

\* len(resume_data.get(key, []))
count_of(resume_data, key) == Len(get(resume_data, key, <<>>))

\* the response of analyze_resume from what its lines read: the resume data (line 82 or
\* the session), get_cache_info() (line 92) and is_available() (line 100)
analyze_resume_response(resume_data, cache_info, rag_available) ==
    IF falsy(resume_data) THEN redirect("analyze_resume", "career_advisor:home")
    ELSE render("analyze_resume", "career_advisor/analyze.html",
                [resume_data |-> resume_data[1],
                 skills_count |-> count_of(resume_data[1], "skills"),
                 projects_count |-> count_of(resume_data[1], "projects"),
                 education_count |-> count_of(resume_data[1], "education"),
                 experience_count |-> count_of(resume_data[1], "experience"),
                 rag_available |-> rag_available,
                 cache_info |-> cache_info])

\* the response of analyze_resume when no other thread writes the service meanwhile
analyze_resume(svc, session) ==
    analyze_resume_response(resume_data_for(svc, session), get_cache_info(svc),
                            is_available(svc))

DEFAULT_TARGET_ROLE == <<"D", "a", "t", "a", " ", "S", "c", "i", "e", "n", "t", "i", "s", "t">>

\* request.POST.get('target_role', 'Data Scientist'); posted is <<>> for a GET, else the
\* form: a record that holds target_role unless the field was left out
target_role_of(posted) ==
    IF posted = <<>> THEN DEFAULT_TARGET_ROLE
    ELSE get(posted[1], "target_role", DEFAULT_TARGET_ROLE)

\* the response of skills_gap_analysis from what its lines read: the resume data (line
\* 108), is_available() (line 117) and, when that held, what analyze_skills_gap_rag
\* returned (line 118)
skills_gap_analysis_response(resume_data, posted, rag_available, rag_analysis) ==
    IF falsy(resume_data) THEN redirect("skills_gap_analysis", "career_advisor:home")
    ELSE IF posted = <<>>
    THEN render("skills_gap_analysis", "career_advisor/skills_gap_form.html",
                [resume_data |-> resume_data[1]])
    ELSE IF rag_available /\ "error" \notin DOMAIN rag_analysis
    THEN render("skills_gap_analysis", "career_advisor/skills_gap.html",
                [resume_data |-> resume_data[1], analysis |-> rag_analysis,
                 target_role |-> target_role_of(posted), rag_used |-> TRUE])
    ELSE render("skills_gap_analysis", "career_advisor/skills_gap.html",
                [resume_data |-> resume_data[1],
                 analysis |-> analyze_skills_gap_fallback(resume_data[1],
                                                          target_role_of(posted)),
                 target_role |-> target_role_of(posted), rag_used |-> FALSE])

\* the response of skills_gap_analysis when no other thread writes the service meanwhile
skills_gap_analysis(svc, session, posted, answers) ==
    skills_gap_analysis_response(resume_data_for(svc, session), posted, is_available(svc),
                                 ask_pipeline(svc, target_role_of(posted), answers))

\* the response of career_paths from the resume data (line 145) and is_available() (156)
career_paths_response(resume_data, rag_available) ==
    IF falsy(resume_data) THEN redirect("career_paths", "career_advisor:home")
    ELSE render("career_paths", "career_advisor/career_paths.html",
                [resume_data |-> resume_data[1],
                 career_paths |-> suggest_career_paths(resume_data[1]),
                 rag_available |-> rag_available])

\* the response of career_paths when no other thread writes the service meanwhile
career_paths(svc, session) ==
    career_paths_response(resume_data_for(svc, session), is_available(svc))

\* request.POST.get('question', ''); posted is <<>> for a GET, else the form: a record
\* that holds question unless the field was left out
question_of(posted) == IF posted = <<>> THEN <<>> ELSE get(posted[1], "question", <<>>)

\* the response of career_chat from what its lines read: the resume data (line 163),
\* is_available() (line 172, or 184 for the page) and, when a question was put to the
\* pipeline, what get_career_advice returned (line 173)
career_chat_response(resume_data, posted, rag_available, rag_response) ==
    IF falsy(resume_data) THEN redirect("career_chat", "career_advisor:home")
    ELSE IF posted /= <<>> /\ question_of(posted) /= <<>>
    THEN IF rag_available /\ "error" \notin DOMAIN rag_response
         THEN JsonResponse("career_chat",
                           [answer |-> rag_response.answer, rag_used |-> TRUE])
         ELSE JsonResponse("career_chat",
                           [answer |-> get_career_advice_fallback(question_of(posted),
                                                                  resume_data[1]),
                            rag_used |-> FALSE])
    ELSE render("career_chat", "career_advisor/chat.html",
                [resume_data |-> resume_data[1], rag_available |-> rag_available])

\* the response of career_chat when no other thread writes the service meanwhile
career_chat(svc, session, posted, answers) ==
    career_chat_response(resume_data_for(svc, session), posted, is_available(svc),
                         ask_pipeline(svc, question_of(posted), answers))

\* the response of learning_roadmap from the resume data (line 190) and is_available()
\* (line 201)
learning_roadmap_response(resume_data, rag_available) ==
    IF falsy(resume_data) THEN redirect("learning_roadmap", "career_advisor:home")
    ELSE render("learning_roadmap", "career_advisor/roadmap.html",
                [resume_data |-> resume_data[1],
                 roadmap |-> generate_learning_roadmap(resume_data[1]),
                 rag_available |-> rag_available])

\* the response of learning_roadmap when no other thread writes the service meanwhile
learning_roadmap(svc, session) ==
    learning_roadmap_response(resume_data_for(svc, session), is_available(svc))

\* the response of performance_status from get_cache_info() (line 208) and
\* is_available() (line 212)
performance_status_response(cache_info, rag_available) ==
    render("performance_status", "career_advisor/performance.html",
           [cache_info |-> cache_info, rag_available |-> rag_available])

\* the response of performance_status when no other thread writes the service meanwhile
performance_status(svc) ==
    performance_status_response(get_cache_info(svc), is_available(svc))

\* the locals of a view that is not running
NoView ==
    [view |-> "none", posted |-> <<>>, pc |-> "none", resume_data |-> <<>>,
     cache_info |-> NoCacheInfo, pipeline |-> <<>>]

\* the locals of a view that has read the resume data and goes on at the line `at`
ViewFrame(view, posted, at, resume_data) ==
    [view |-> view, posted |-> posted, pc |-> at, resume_data |-> resume_data,
     cache_info |-> NoCacheInfo, pipeline |-> <<>>]

\* the response of the view of a frame, given the is_available() it read last and what
\* the pipeline call returned (an error when the view made none)
view_response(frame, rag_available, rag_result) ==
    CASE frame.view = "analyze_resume" ->
             analyze_resume_response(frame.resume_data, frame.cache_info, rag_available)
      [] frame.view = "skills_gap_analysis" ->
             skills_gap_analysis_response(frame.resume_data, frame.posted, rag_available,
                                          rag_result)
      [] frame.view = "career_paths" ->
             career_paths_response(frame.resume_data, rag_available)
      [] frame.view = "career_chat" ->
             career_chat_response(frame.resume_data, frame.posted, rag_available,
                                  rag_result)
      [] frame.view = "learning_roadmap" ->
             learning_roadmap_response(frame.resume_data, rag_available)
      [] frame.view = "performance_status" ->
             performance_status_response(frame.cache_info, rag_available)

\* what a view puts to the pipeline: the target role or the question
pipeline_request(frame) ==
    IF frame.view = "skills_gap_analysis" THEN target_role_of(frame.posted)
    ELSE question_of(frame.posted)

----------------------------------------------------------------------------
(* The inputs the specifications draw from                                 *)

\* xs joined by the string sep
RECURSIVE Join(_, _)
Join(xs, sep) ==
    IF xs = <<>> THEN <<>>
    ELSE IF Len(xs) = 1 THEN xs[1]
    ELSE xs[1] \o sep \o Join(Tail(xs), sep)

\* the sequences of at most n elements of S
SeqsUpTo(S, n) == UNION {[1..k -> S] : k \in 0..n}

MaxLines == 4

\* the lines a resume text is made of
LineVocabulary ==
    {<<>>,
     <<"S", "K", "I", "L", "L", "S">>,
     <<"E", "D", "U", "C", "A", "T", "I", "O", "N">>,
     <<"G", "o", ",", " ", "a", "n", "d", " ", "G", "o", ",", " ", "P", "y">>,
     <<"B", ".", "S", "c", " ", "i", "n", " ", "C", "S">>,
     <<"a", "c", "a", "d", "e", "m", "i", "c">>,
     <<"*", "*", "*">>}

\* resume texts of at most MaxLines lines
ResumeTexts == {Join(ls, <<"\n">>) : ls \in SeqsUpTo(LineVocabulary, MaxLines)}

MaxSegments == 3

\* the texts that follow a header keyword in a one-line resume
EducationTexts == {<<"X", " ", "Y">>,
                   <<"B", ".", "S", "c", " ", "i", "n", " ", "C", "S">>}
SkillsTexts == {<<"P", "y", "t", "h", "o", "n", " ", "J", "a", "v", "a">>,
                <<"P", "y", "t", "h", "o", "n", ",", " ", "J", "a", "v", "a">>,
                <<"w", "e", " ", "u", "s", "e", " ", "S", "Q", "L", " ", "a", "n", "d", " ", "a", "l", "s", "o", " ", "P", "y", "t", "h", "o", "n", " ", "d", "a", "i", "l", "y">>}
ProjectsTexts == {<<"F", "o", "o">>,
                  <<"C", "h", "a", "t", " ", "B", "o", "t", " ", "T", "o", "o", "l", "s", ":", " ", "F", "l", "a", "s", "k">>}
ActivityTexts == {<<"c", "h", "e", "s", "s", " ", "c", "l", "u", "b">>}

Segment(header, text) == header \o <<" ">> \o text

HeaderSegments ==
    {Segment(EDUCATION, e) : e \in EducationTexts}
        \cup {Segment(SKILLS, s) : s \in SkillsTexts}
        \cup {Segment(PROJECTS, p) : p \in ProjectsTexts}
        \cup {Segment(ACHIEVEMENTS, a) : a \in ActivityTexts}
        \cup {Segment(EXTRACURRICULAR, a) : a \in ActivityTexts}

\* one-line resume texts of at most MaxSegments header segments
ChainTexts == {Join(segs, <<" ">>) : segs \in SeqsUpTo(HeaderSegments, MaxSegments)}

MaxSkillWords == 3
MaxCleanings == 2

SkillWords == {<<"a", "n", "d">>,
               <<"o", "r">>,
               <<"&">>,
               <<"X">>,
               <<"2", "0", "2", "0">>}

\* candidate skill strings of at most MaxSkillWords words
SkillTexts == {Join(ws, <<" ">>) : ws \in SeqsUpTo(SkillWords, MaxSkillWords)}

MaxSectionLines == 4

\* the lines of the multi-line resume texts with headers, content lines, a labelled
\* skill list and a keyword line
SectionLines ==
    {<<"E", "D", "U", "C", "A", "T", "I", "O", "N">>,
     <<"S", "K", "I", "L", "L", "S">>,
     <<"B", ".", "S", "c", " ", "i", "n", " ", "C", "S">>,
     <<"C", "h", "a", "t", " ", "B", "o", "t">>,
     <<"T", "o", "o", "l", "s", ":", " ", "G", "o", ",", " ", "C", "+", "+">>,
     <<"a", "c", "a", "d", "e", "m", "i", "c">>}

\* the sequences of m to n elements of S
SeqsBetween(S, m, n) == UNION {[1..k -> S] : k \in m..n}

\* resume texts of more than SingleLineMaxLines and at most MaxSectionLines such lines
SectionTexts ==
    {Join(ls, <<"\n">>) :
        ls \in SeqsBetween(SectionLines, SingleLineMaxLines + 1, MaxSectionLines)}

MaxPages == 4

\* the texts PyMuPDF returns for a page
PageTexts ==
    {<<>>,
     <<"E", "D", "U", "C", "A", "T", "I", "O", "N", " ", "B", ".", "S", "c", " ", "i", "n", " ", "C", "S", "\n", "2">>,
     <<"-", " ", "G", "o", "<U+2022>", "P", "y">>}

\* the documents extract_text_from_pdf is called on: up to MaxPages pages, read without
\* error, or with an error on opening or on reading one of the pages
PdfDocuments ==
    {d \in [pages : SeqsUpTo(PageTexts, MaxPages), failure : {"none", "open", "page"},
            failed_page : 0..MaxPages] :
        IF d.failure = "page" THEN d.failed_page \in 1..Len(d.pages)
        ELSE d.failed_page = 0}

MaxListItems == 3

\* the items and the separators the skill lists are made of
ListItems == {<<"C">>, <<"G", "o">>, <<"P", "y">>}
ListSeparators == {<<",", " ">>, <<";", " ">>, <<" ", "|", " ">>, <<" ", "&", " ">>}

\* the lists of n items, each two joined by one of the separators
RECURSIVE ItemLists(_)
ItemLists(n) ==
    IF n = 1 THEN ListItems
    ELSE {l \o sep \o item : l \in ItemLists(n - 1), sep \in ListSeparators,
                              item \in ListItems}

SkillLists == UNION {ItemLists(n) : n \in 1..MaxListItems}

\* a skills section holding one list, on one line and on lines of its own
SkillListTexts ==
    {SKILLS \o <<" ">> \o l : l \in SkillLists}
        \cup {SKILLS \o <<"\n">> \o l \o <<"\n", "\n">> : l \in SkillLists}

MaxProjects == 3

\* the entries of a projects section: a name before "Tools:", names before the section
\* sign (one of them too short to be kept, one the name of the first entry again) and a
\* bullet fragment
ProjectEntries ==
    {<<"C", "h", "a", "t", " ", "B", "o", "t", " ", "T", "o", "o", "l", "s", ":", " ", "G", "o", ".">>,
     <<"W", "e", "b", " ", "A", "p", "p", " ", "<U+00A7>", " ", "b", "u", "i", "l", "t", ".">>,
     <<"A", "b", " ", "<U+00A7>", " ", "i", "t", ".">>,
     <<"C", "h", "a", "t", " ", "B", "o", "t", " ", "<U+00A7>", " ", "a", "g", "a", "i", "n", ".">>,
     <<"<U+2022>", " ", "m", "a", "d", "e", " ", "a", " ", "l", "o", "n", "g", " ", "t", "h", "i", "n", "g", ".">>}

\* one-line texts: the PROJECTS header and at most MaxProjects entries
ProjectListTexts ==
    {Join(<<PROJECTS>> \o es, <<" ">>) : es \in SeqsUpTo(ProjectEntries, MaxProjects)}

MaxReviewSegments == 4

\* the segments of the texts that are parsed and then analysed
ReviewSegments ==
    {<<"E", "X", "P", "E", "R", "I", "E", "N", "C", "E", " ", "I", "n", "t", "e", "r", "n", " ", "a", "t", " ", "A", "C", "M", "E">>,
     <<"E", "D", "U", "C", "A", "T", "I", "O", "N", " ", "B", ".", "S", "c", " ", "i", "n", " ", "C", "S">>,
     <<"S", "K", "I", "L", "L", "S", " ", "G", "o", ",", " ", "P", "y">>,
     <<"P", "R", "O", "J", "E", "C", "T", "S", " ", "C", "h", "a", "t", " ", "B", "o", "t", " ", "T", "o", "o", "l", "s", ":", " ", "G", "o", ".">>}

\* the texts parse_resume_single_line is given: at most MaxReviewSegments segments on
\* one line, and at most SingleLineMaxLines segments on a line each
ReviewTexts ==
    {Join(ss, <<" ">>) : ss \in SeqsUpTo(ReviewSegments, MaxReviewSegments)}
        \cup {Join(ss, <<"\n">>) : ss \in SeqsUpTo(ReviewSegments, SingleLineMaxLines)}

MaxLineWords == 5

\* the words the lines given to is_section_header are made of
HeaderWords ==
    {<<"S", "K", "I", "L", "L", "S">>,
     <<"S", "k", "i", "l", "l", "s">>,
     <<"w", "o", "r", "k">>,
     <<"A">>,
     <<"3", ".", "8">>}

\* lines of at most MaxLineWords such words, as they are and padded with blanks
HeaderLines ==
    LET plain == {Join(ws, <<" ">>) : ws \in SeqsUpTo(HeaderWords, MaxLineWords)}
    IN plain \cup {<<" ">> \o l \o <<" ", " ">> : l \in plain}

MaxContactParts == 4

\* the lines the texts with contact details are made of
ContactParts ==
    {<<"a", "@", "b", ".", "c", "o">>,
     <<"5", "5", "5", "-", "1", "2", "3", "-", "4", "5", "6", "7">>,
     <<"+", "4", "4", " ", "2", "0", " ", "7", "9", "4", "6", " ", "0", "9", "5", "8">>,
     <<"+", "1", " ", "5", "5", "5", " ", "1", "2", "3", " ", "4", "5", "6", "7">>,
     <<"l", "i", "n", "k", "e", "d", "i", "n", ".", "c", "o", "m", "/", "i", "n", "/", "j", "d">>,
     <<"x">>}

ContactTexts == {Join(ls, <<"\n">>) : ls \in SeqsUpTo(ContactParts, MaxContactParts)}

NumThreads == 2

Threads == 1..NumThreads

\* the texts the concurrent calls are given
CallTexts ==
    {<<>>,
     <<"S", "K", "I", "L", "L", "S", " ", "G", "o", ",", " ", "P", "y">>,
     <<"E", "D", "U", "C", "A", "T", "I", "O", "N", "\n", "B", ".", "S", "c", " ", "i", "n", " ", "C", "S", "\n", "a", "c", "a", "d", "e", "m", "i", "c", "\n", "*", "*", "*">>,
     <<"S", "K", "I", "L", "L", "S", "\n", "G", "o", ",", " ", "a", "n", "d", " ", "G", "o", ",", " ", "P", "y", "\n", "B", ".", "S", "c", " ", "i", "n", " ", "C", "S", "\n">>}

\* the frame of a parse_resume call that has not run yet: its argument and its locals
NewFrame(text) ==
    [raw_text |-> text, pc |-> "call", lines |-> <<>>, contact_info |-> <<>>,
     education |-> <<>>, experience |-> <<>>, projects |-> <<>>,
     skills_section |-> <<>>, result |-> <<>>]

MaxItems == 5

core_keys == {"education", "experience", "projects", "skills"}

\* the lists of at most MaxItems entries a core section can hold
SectionValues == {[i \in 1..n |-> <<"x">>] : n \in 0..MaxItems}

\* the records analyze_resume_quality is called with: each core section absent, empty
\* or holding up to MaxItems entries
QualityRecords ==
    UNION {[keys -> SectionValues] : keys \in SUBSET core_keys}

NumSessions == 2

\* the requests the web process receives in a run
MaxRequests == 3

\* the files the browsers upload in a run
MaxUploads == 2

\* the browsers, each with its own Django session
Sessions == 1..NumSessions

\* the files the browsers upload; a name stands for one content. python.pdf is a small
\* file of one page, which resume_file.chunks() yields as one chunk; java.pdf is a file
\* of two pages that is written in two chunks, page i in chunk i
UploadNames == {"python.pdf", "java.pdf"}

upload_document(name) ==
    [pages |-> IF name = "python.pdf"
               THEN <<<<"S", "K", "I", "L", "L", "S", " ", "P", "y", "t", "h", "o", "n", ",", " ", "S", "Q", "L">>>>
               ELSE <<<<"S", "K", "I", "L", "L", "S", " ", "J", "a", "v", "a", ",", " ", "G", "o">>,
                      <<"P", "R", "O", "J", "E", "C", "T", "S", " ", "C", "h", "a", "t", " ", "B", "o", "t", " ", "T", "o", "o", "l", "s", ":", " ", "G", "o", ".">>>>,
     failure |-> "none", failed_page |-> 0]

\* the chunks resume_file.chunks() yields for an upload, by number
chunks_of(name) == 1..Len(upload_document(name).pages)

\* the bytes of a file that holds the chunks `written` of the upload `name`. Every request
\* writes through its own file object, so a chunk lands at its own offset: when another
\* request has truncated the file meanwhile, the chunks below it are a hole of zero bytes
file_content(name, written) ==
    [i \in 1..Max(written \cup {0}) |->
        IF i \in written THEN [of |-> name, chunk |-> i] ELSE [of |-> "", chunk |-> 0]]

\* the forms posted to upload_resume, with or without a file (<<>> is a GET)
UploadForms == {<<>>, <<[csrf |-> "token"]>>} \cup {<<[resume |-> n]>> : n \in UploadNames}

\* the forms posted to skills_gap_analysis, with or without a role (<<>> is a GET)
TargetRoles ==
    {<<"D", "a", "t", "a", " ", "S", "c", "i", "e", "n", "t", "i", "s", "t">>,
     <<"d", "a", "t", "a", " ", "a", "n", "a", "l", "y", "s", "t">>,
     <<"C", "h", "e", "f">>}
SkillsGapForms == {<<>>, <<[csrf |-> "token"]>>} \cup {<<[target_role |-> r]>> : r \in TargetRoles}

\* the forms posted to career_chat, with or without a question (<<>> is a GET)
Questions ==
    {<<>>,
     <<"m", "y", " ", "r", "e", "s", "u", "m", "e">>,
     <<"P", "y", "t", "h", "o", "n", "?">>}
ChatForms == {<<>>, <<[csrf |-> "token"]>>} \cup {<<[question |-> q]>> : q \in Questions}

----------------------------------------------------------------------------
(* The state machine: one call of parse_resume, and repeated clean_skill   *)

\* the web process is not running
NoWebRequest ==
    /\ service = <<>>
    /\ sessions = <<>>
    /\ response = <<>>
    /\ uploads = <<>>
    /\ rag_calls = <<>>
    /\ pending = <<>>
    /\ requests = 0
    /\ files = <<>>

\* no analyze_resume_quality, extract_text_from_pdf, concurrent or is_section_header
\* call is under way
NoOtherCall ==
    /\ NoWebRequest
    /\ analysis = <<>>
    /\ pdf = <<>>
    /\ calls = <<>>
    /\ header_line = <<>>
    /\ header_result = <<>>

InitParse(texts) ==
    /\ raw_text \in texts
    /\ pc = "start"
    /\ mode = "none"
    /\ parsed = <<>>
    /\ skill = <<>>
    /\ cleanings = <<>>
    /\ NoOtherCall

\* parse_resume on a text of at most 3 lines: parse_resume_single_line
ParseSingleLine ==
    /\ pc = "start"
    /\ is_single_line(raw_text)
    /\ parsed' = parse_resume_single_line(raw_text)
    /\ mode' = "single"
    /\ pc' = "done"
    /\ UNCHANGED <<raw_text, skill, cleanings, analysis, pdf, calls, header_line, header_result,
                   web_vars>>

\* parse_resume on a text of more than 3 lines: the multi-line branch, whose skills
\* come out in one of the orders the set iteration can take
ParseMultiLine ==
    /\ pc = "start"
    /\ ~is_single_line(raw_text)
    /\ parsed' \in parse_resume_multi_line(raw_text)
    /\ mode' = "multi"
    /\ pc' = "done"
    /\ UNCHANGED <<raw_text, skill, cleanings, analysis, pdf, calls, header_line, header_result,
                   web_vars>>

\* clean_skill applied to the result of the previous call (to `skill` the first time)
CleanSkill ==
    /\ pc = "clean"
    /\ Len(cleanings) < MaxCleanings
    /\ cleanings' = Append(cleanings,
                           clean_skill(IF cleanings = <<>> THEN skill
                                       ELSE cleanings[Len(cleanings)]))
    /\ UNCHANGED <<raw_text, pc, mode, parsed, skill, analysis, pdf, calls, header_line, header_result,
                   web_vars>>

\* analyze_resume_quality on the record `parsed`
AnalyzeQuality ==
    /\ pc = "done"
    /\ analysis' = analyze_resume_quality(parsed)
    /\ pc' = "analyzed"
    /\ UNCHANGED <<raw_text, mode, parsed, skill, cleanings, pdf, calls, header_line,
                   header_result,
                   web_vars>>

\* extract_text_from_pdf on the document, whose result is then the text to parse
ExtractText ==
    /\ pc = "pdf"
    /\ raw_text' = extract_text_from_pdf(pdf)
    /\ pc' = "start"
    /\ UNCHANGED <<mode, parsed, skill, cleanings, analysis, pdf, calls, header_line,
                   header_result,
                   web_vars>>

\* a variant in which `lines` is shared: every call reads the list of the first frame
first_frame_lines(frames, t) == frames[Min(DOMAIN frames)].lines

\* the local `lines` of call t
own_lines(frames, t) == frames[t].lines

\* call t: lines = raw_text.split('\n'), the test on their number, and for a longer text
\* the list of its stripped non-empty lines
CallSplit(t) ==
    /\ pc = "calls"
    /\ calls[t].pc = "call"
    /\ calls' = [calls EXCEPT
                    ![t].lines = IF is_single_line(calls[t].raw_text)
                                 THEN split(calls[t].raw_text, "\n")
                                 ELSE stripped_lines(calls[t].raw_text),
                    ![t].pc = IF is_single_line(calls[t].raw_text)
                              THEN "single" ELSE "contact"]
    /\ UNCHANGED <<raw_text, pc, mode, parsed, skill, cleanings, analysis, pdf,
                   header_line, header_result,
                   web_vars>>

\* call t: return parse_resume_single_line(raw_text)
CallSingleLine(t) ==
    /\ pc = "calls"
    /\ calls[t].pc = "single"
    /\ calls' = [calls EXCEPT
                    ![t].result = parse_resume_single_line(calls[t].raw_text),
                    ![t].pc = "done"]
    /\ UNCHANGED <<raw_text, pc, mode, parsed, skill, cleanings, analysis, pdf,
                   header_line, header_result,
                   web_vars>>

\* call t: contact_info = extract_contact_info(raw_text)
CallContact(t) ==
    /\ pc = "calls"
    /\ calls[t].pc = "contact"
    /\ calls' = [calls EXCEPT
                    ![t].contact_info = extract_contact_info(calls[t].raw_text),
                    ![t].pc = "sections"]
    /\ UNCHANGED <<raw_text, pc, mode, parsed, skill, cleanings, analysis, pdf,
                   header_line, header_result,
                   web_vars>>

\* call t: the four sections, by the simple strategy and then the advanced one
CallSections(t) ==
    /\ pc = "calls"
    /\ calls[t].pc = "sections"
    /\ LET lines == own_lines(calls, t)
       IN calls' = [calls EXCEPT
                       ![t].education =
                           locate_section(lines, EDUCATION, education_keywords),
                       ![t].experience =
                           locate_section(lines, EXPERIENCE, experience_keywords),
                       ![t].projects =
                           locate_section(lines, PROJECTS, projects_keywords),
                       ![t].skills_section =
                           locate_section(lines, SKILLS, skills_keywords),
                       ![t].pc = "skills"]
    /\ UNCHANGED <<raw_text, pc, mode, parsed, skill, cleanings, analysis, pdf,
                   header_line, header_result,
                   web_vars>>

\* call t: skills = extract_skills_advanced(skills_section), then the record is built
\* and returned
CallReturn(t) ==
    /\ pc = "calls"
    /\ calls[t].pc = "skills"
    /\ \E skills \in extract_skills_advanced(calls[t].skills_section) :
           calls' = [calls EXCEPT
                        ![t].result =
                            with_metadata([contact |-> calls[t].contact_info,
                                           education |-> calls[t].education,
                                           experience |-> calls[t].experience,
                                           projects |-> calls[t].projects,
                                           skills |-> skills,
                                           raw_text |-> calls[t].raw_text],
                                          own_lines(calls, t)),
                        ![t].pc = "done"]
    /\ UNCHANGED <<raw_text, pc, mode, parsed, skill, cleanings, analysis, pdf,
                   header_line, header_result,
                   web_vars>>

\* the records parse_resume returns for the text of the whole file uploaded to a path
uploaded_data(resume_path) ==
    parse_resume(extract_text_from_pdf(upload_document(file_name_of(resume_path))))

\* the chunks the file at a path holds in the file system fs: none when there is no file
chunks_at(fs, resume_path) ==
    IF fs[file_name_of(resume_path)] = <<>> THEN {}
    ELSE fs[file_name_of(resume_path)][1]

\* the numbers in S in ascending order
ascending(S) == SelectSeq([i \in 1..Max(S \cup {0}) |-> i], LAMBDA i : i \in S)

\* the locals of extract_text_from_pdf when no document is open
NoDocument == [page_nums |-> <<>>, pages |-> <<>>, failure |-> "none", failed_page |-> 0]

\* doc = fitz.open(file_path) on the file as it is at this moment: the pages the document
\* has, or the failure. It raises when there is no file or the file is empty; on the whole
\* upload it finds every page; on a part of the upload it either raises or repairs the
\* document and finds the pages whose chunks are in the file
fitz_open(fs, resume_path) ==
    LET on_disk == chunks_at(fs, resume_path)
        raised == [NoDocument EXCEPT !.failure = "open"]
        opened == [NoDocument EXCEPT !.page_nums = ascending(on_disk)]
    IN IF on_disk = {} THEN {raised}
       ELSE IF on_disk = chunks_of(file_name_of(resume_path)) THEN {opened}
       ELSE {raised, opened}

\* _get_resume_hash: the digest of the bytes the file holds at the call, or the path when
\* the file cannot be opened
get_resume_hash(fs, resume_path) ==
    IF fs[file_name_of(resume_path)] = <<>> THEN resume_path
    ELSE <<"md5", file_content(file_name_of(resume_path), chunks_at(fs, resume_path))>>

\* the response variable when a view has answered a request
served(request, reply) == [request |-> request, reply |-> reply]

\* the frame of an upload_resume request that is about to call initialize_rag: the path,
\* the chunks written, and the locals of initialize_rag and of the functions it calls
\* (document: extract_text_from_pdf; cached_model: the argument of CareerRAGPipeline;
\* pipeline: the value a line has read and not yet stored); fallback says that the
\* request is in the fallback of upload_resume
NewRagFrame(resume_path) ==
    [resume_path |-> resume_path, pc |-> "call", written |-> 0, fallback |-> FALSE,
     document |-> NoDocument, parsed_data |-> <<>>, resume_hash |-> <<>>,
     cached_model |-> <<>>, pipeline |-> <<>>, result |-> <<>>]

\* the frame of a thread that is not inside upload_resume
IdleRagFrame ==
    [resume_path |-> <<>>, pc |-> "idle", written |-> 0, fallback |-> FALSE,
     document |-> NoDocument, parsed_data |-> <<>>, resume_hash |-> <<>>,
     cached_model |-> <<>>, pipeline |-> <<>>, result |-> <<>>]

\* a step of a request thread of the web process; the threads take their steps one at a
\* time, in any order
WebStep ==
    /\ pc = "web"
    /\ UNCHANGED <<raw_text, mode, parsed, skill, cleanings, analysis, pdf, calls,
                   header_line, header_result>>

\* a request of browser s arrives and a thread begins its view; a browser waits for the
\* response to its request before it sends the next one
Receive(s) ==
    /\ WebStep
    /\ requests < MaxRequests
    /\ rag_calls[s].pc = "idle"
    /\ pending[s].view = "none"
    /\ requests' = requests + 1

\* a later step of a view: it only reads the service
ViewStep ==
    /\ WebStep
    /\ UNCHANGED <<service, sessions, uploads, files, rag_calls, requests>>

\* the number of files the browsers have uploaded
uploads_made == Len(Flatten([s \in Sessions |-> uploads[s]]))

\* the request the view of browser s is answering
request_of(s) == [view |-> pending[s].view, session |-> s, posted |-> pending[s].posted]

\* upload_resume up to open(file_path, 'wb+') (lines 22-36): the page for a GET, a
\* redirect for a form without a file, else the file is created or truncated
UploadResume(s) ==
    /\ Receive(s)
    /\ \E posted \in UploadForms :
           IF posted = <<>>
           THEN /\ response' = served([view |-> "upload_resume", session |-> s,
                                       posted |-> posted],
                                      render("upload_resume", "career_advisor/upload.html",
                                             <<>>))
                /\ pc' = "respond"
                /\ UNCHANGED <<uploads, files, rag_calls>>
           ELSE IF "resume" \notin DOMAIN posted[1]
           THEN /\ response' = served([view |-> "upload_resume", session |-> s,
                                       posted |-> posted],
                                      redirect("upload_resume",
                                               "career_advisor:upload_resume"))
                /\ pc' = "respond"
                /\ UNCHANGED <<uploads, files, rag_calls>>
           ELSE /\ uploads_made < MaxUploads
                /\ uploads' = [uploads EXCEPT ![s] = Append(@, posted[1].resume)]
                /\ files' = [files EXCEPT ![posted[1].resume] = <<{}>>]
                /\ rag_calls' = [rag_calls EXCEPT
                                    ![s] = [NewRagFrame(file_path_of(posted[1].resume))
                                               EXCEPT !.pc = "save"]]
                /\ UNCHANGED <<response, pc>>
    /\ UNCHANGED <<service, sessions, pending>>

\* upload_resume, lines 37-38: destination.write(chunk) for the next chunk of the upload,
\* at the offset this request has reached. A chunk that is followed by another one is
\* larger than the buffer of the file object and reaches the file at once; the last
\* chunk reaches it when the file is closed, and initialize_rag is called (line 43)
UploadWrite(s) ==
    /\ WebStep
    /\ rag_calls[s].pc = "save"
    /\ LET name == file_name_of(rag_calls[s].resume_path)
           chunk == rag_calls[s].written + 1
       IN /\ files' = [files EXCEPT ![name] = <<chunks_at(files, rag_calls[s].resume_path)
                                                    \cup {chunk}>>]
          /\ rag_calls' = [rag_calls EXCEPT
                              ![s].written = chunk,
                              ![s].pc = IF chunk \in chunks_of(name)
                                           /\ chunk + 1 \notin chunks_of(name)
                                        THEN "call" ELSE "save"]
    /\ UNCHANGED <<service, sessions, response, pc, uploads, pending, requests>>

\* upload_resume when initialize_rag has returned (lines 43-56): the redirect when it
\* returned True, else the fallback begins with its call of extract_text_from_pdf
UploadInitialized(s) ==
    /\ WebStep
    /\ rag_calls[s].pc = "done"
    /\ IF rag_calls[s].result = <<TRUE>>
       THEN /\ response' = served([view |-> "upload_resume", session |-> s,
                                   posted |-> <<[resume |->
                                                    file_name_of(
                                                        rag_calls[s].resume_path)]>>],
                                  redirect("upload_resume",
                                           "career_advisor:analyze_resume"))
            /\ rag_calls' = [rag_calls EXCEPT ![s] = IdleRagFrame]
            /\ pc' = "respond"
       ELSE /\ rag_calls' = [rag_calls EXCEPT ![s].fallback = TRUE, ![s].pc = "open"]
            /\ UNCHANGED <<response, pc>>
    /\ UNCHANGED <<service, sessions, uploads, files, pending, requests>>

\* the fallback of upload_resume after its parse_resume call (lines 60-65): the parsed
\* data and the path are stored in the session, and the redirect
UploadFallback(s) ==
    /\ WebStep
    /\ rag_calls[s].pc = "fallback_parsed"
    /\ sessions' = [sessions EXCEPT
                       ![s] = session_set(
                                  session_set(@, "resume_data", rag_calls[s].parsed_data),
                                  "resume_file", rag_calls[s].resume_path)]
    /\ response' = served([view |-> "upload_resume", session |-> s,
                           posted |-> <<[resume |->
                                             file_name_of(rag_calls[s].resume_path)]>>],
                          redirect("upload_resume", "career_advisor:analyze_resume"))
    /\ rag_calls' = [rag_calls EXCEPT ![s] = IdleRagFrame]
    /\ pc' = "respond"
    /\ UNCHANGED <<service, uploads, files, pending, requests>>

\* the server sends the response
SendResponse ==
    /\ pc = "respond"
    /\ response' = <<>>
    /\ pc' = "web"
    /\ UNCHANGED <<raw_text, mode, parsed, skill, cleanings, analysis, pdf, calls,
                   header_line, header_result, service, sessions, uploads, files, rag_calls,
                   pending, requests>>

Home(s) ==
    /\ Receive(s)
    /\ response' = served([view |-> "home", session |-> s, posted |-> <<>>],
                          render("home", "career_advisor/home.html", <<>>))
    /\ pc' = "respond"
    /\ UNCHANGED <<service, sessions, uploads, files, rag_calls, pending>>

\* analyze_resume up to line 89: the resume data of the service, else of the session
AnalyzeResume(s) ==
    /\ Receive(s)
    /\ LET resume_data == resume_data_for(service, sessions[s])
       IN IF falsy(resume_data)
          THEN /\ response' = served([view |-> "analyze_resume", session |-> s,
                                      posted |-> <<>>],
                                     analyze_resume_response(resume_data, NoCacheInfo,
                                                             FALSE))
               /\ pc' = "respond"
               /\ UNCHANGED pending
          ELSE /\ pending' = [pending EXCEPT
                                 ![s] = ViewFrame("analyze_resume", <<>>, "cache_info",
                                                  resume_data)]
               /\ UNCHANGED <<response, pc>>
    /\ UNCHANGED <<service, sessions, uploads, files, rag_calls>>

\* skills_gap_analysis up to line 114: the resume data, and the form page for a GET
SkillsGapAnalysis(s) ==
    /\ Receive(s)
    /\ \E posted \in SkillsGapForms :
           LET resume_data == resume_data_for(service, sessions[s])
           IN IF falsy(resume_data) \/ posted = <<>>
              THEN /\ response' = served([view |-> "skills_gap_analysis", session |-> s,
                                          posted |-> posted],
                                         skills_gap_analysis_response(
                                             resume_data, posted, FALSE,
                                             [error |-> "error"]))
                   /\ pc' = "respond"
                   /\ UNCHANGED pending
              ELSE /\ pending' = [pending EXCEPT
                                     ![s] = ViewFrame("skills_gap_analysis", posted, "ask",
                                                      resume_data)]
                   /\ UNCHANGED <<response, pc>>
    /\ UNCHANGED <<service, sessions, uploads, files, rag_calls>>

\* career_paths up to line 151: the resume data and the suggestions
CareerPaths(s) ==
    /\ Receive(s)
    /\ LET resume_data == resume_data_for(service, sessions[s])
       IN IF falsy(resume_data)
          THEN /\ response' = served([view |-> "career_paths", session |-> s,
                                      posted |-> <<>>],
                                     career_paths_response(resume_data, FALSE))
               /\ pc' = "respond"
               /\ UNCHANGED pending
          ELSE /\ pending' = [pending EXCEPT
                                 ![s] = ViewFrame("career_paths", <<>>, "is_available",
                                                  resume_data)]
               /\ UNCHANGED <<response, pc>>
    /\ UNCHANGED <<service, sessions, uploads, files, rag_calls>>

\* career_chat up to line 170: the resume data and the question
CareerChat(s) ==
    /\ Receive(s)
    /\ \E posted \in ChatForms :
           LET resume_data == resume_data_for(service, sessions[s])
           IN IF falsy(resume_data)
              THEN /\ response' = served([view |-> "career_chat", session |-> s,
                                          posted |-> posted],
                                         career_chat_response(resume_data, posted, FALSE,
                                                              [error |-> "error"]))
                   /\ pc' = "respond"
                   /\ UNCHANGED pending
              ELSE /\ pending' = [pending EXCEPT
                                     ![s] = ViewFrame("career_chat", posted,
                                                      IF question_of(posted) /= <<>>
                                                      THEN "ask" ELSE "is_available",
                                                      resume_data)]
                   /\ UNCHANGED <<response, pc>>
    /\ UNCHANGED <<service, sessions, uploads, files, rag_calls>>

\* learning_roadmap up to line 196: the resume data and the roadmap
LearningRoadmap(s) ==
    /\ Receive(s)
    /\ LET resume_data == resume_data_for(service, sessions[s])
       IN IF falsy(resume_data)
          THEN /\ response' = served([view |-> "learning_roadmap", session |-> s,
                                      posted |-> <<>>],
                                     learning_roadmap_response(resume_data, FALSE))
               /\ pc' = "respond"
               /\ UNCHANGED pending
          ELSE /\ pending' = [pending EXCEPT
                                 ![s] = ViewFrame("learning_roadmap", <<>>, "is_available",
                                                  resume_data)]
               /\ UNCHANGED <<response, pc>>
    /\ UNCHANGED <<service, sessions, uploads, files, rag_calls>>

\* performance_status up to its call of get_cache_info (line 208)
PerformanceStatus(s) ==
    /\ Receive(s)
    /\ pending' = [pending EXCEPT
                      ![s] = ViewFrame("performance_status", <<>>, "cache_info", <<>>)]
    /\ UNCHANGED <<response, pc, service, sessions, uploads, files, rag_calls>>

\* get_cache_info, line 202: "global_model_loaded": self._global_model is not None
CacheInfoModel(s) ==
    /\ ViewStep
    /\ pending[s].pc = "cache_info"
    /\ pending' = [pending EXCEPT
                      ![s].cache_info.global_model_loaded = service.global_model /= <<>>,
                      ![s].pc = "cached_pipelines"]
    /\ UNCHANGED <<response, pc>>

\* get_cache_info, line 203: "cached_pipelines": len(self._model_cache)
CacheInfoPipelines(s) ==
    /\ ViewStep
    /\ pending[s].pc = "cached_pipelines"
    /\ pending' = [pending EXCEPT
                      ![s].cache_info.cached_pipelines =
                          Cardinality(DOMAIN service.model_cache),
                      ![s].pc = "rag_available"]
    /\ UNCHANGED <<response, pc>>

\* get_cache_info, line 204: "rag_available": self.is_available(), and the return to
\* the view
CacheInfoAvailable(s) ==
    /\ ViewStep
    /\ pending[s].pc = "rag_available"
    /\ pending' = [pending EXCEPT
                      ![s].cache_info.rag_available = is_available(service),
                      ![s].pc = "is_available"]
    /\ UNCHANGED <<response, pc>>

\* the rag_service.is_available() a view puts in its context, and its response
IsAvailable(s) ==
    /\ ViewStep
    /\ pending[s].pc = "is_available"
    /\ response' = served(request_of(s),
                          view_response(pending[s], is_available(service),
                                        [error |-> "error"]))
    /\ pending' = [pending EXCEPT ![s] = NoView]
    /\ pc' = "respond"

\* skills_gap_analysis and career_chat with a form: rag_service.is_available(), then
\* either the rule-based response or the call of the pipeline that self.rag_pipeline
\* names at that moment (rag_service.py, lines 184 and 170)
AskPipeline(s) ==
    /\ ViewStep
    /\ pending[s].pc = "ask"
    /\ IF is_available(service)
       THEN /\ pending' = [pending EXCEPT ![s].pipeline = service.rag_pipeline,
                                          ![s].pc = "asking"]
            /\ UNCHANGED <<response, pc>>
       ELSE /\ response' = served(request_of(s),
                                  view_response(pending[s], FALSE, [error |-> "error"]))
            /\ pending' = [pending EXCEPT ![s] = NoView]
            /\ pc' = "respond"

\* the pipeline returns its answer or raises, and the view responds
PipelineAnswers(s) ==
    /\ ViewStep
    /\ pending[s].pc = "asking"
    /\ \E answers \in BOOLEAN :
           response' = served(request_of(s),
                              view_response(pending[s], TRUE,
                                            pipeline_answer(pending[s].pipeline,
                                                            pipeline_request(pending[s]),
                                                            answers)))
    /\ pending' = [pending EXCEPT ![s] = NoView]
    /\ pc' = "respond"

\* the steps of initialize_rag leave everything but the service and the frames alone;
\* they are taken by the threads of SpecRag and by the upload requests of SpecWeb
RagStep ==
    /\ pc \in {"rag", "web"}
    /\ UNCHANGED <<raw_text, pc, mode, parsed, skill, cleanings, analysis, pdf, calls,
                   header_line, header_result, sessions, response, uploads, files, pending,
                   requests>>

\* initialize_rag, lines 118-126: the return when the RAG components are missing, else
\* the call of extract_text_from_pdf
RagAvailable(t) ==
    /\ RagStep
    /\ rag_calls[t].pc = "call"
    /\ rag_calls' =
           IF ~service.RAG_AVAILABLE
           THEN [rag_calls EXCEPT ![t].result = <<FALSE>>, ![t].pc = "done"]
           ELSE [rag_calls EXCEPT ![t].pc = "open"]
    /\ UNCHANGED service

\* extract_text_from_pdf, line 15: doc = fitz.open(file_path) on the file as it is on
\* disk at this moment, called by initialize_rag (line 126) or by the fallback of
\* upload_resume (views.py, line 56)
PdfOpen(t) ==
    /\ RagStep
    /\ rag_calls[t].pc = "open"
    /\ \E doc \in fitz_open(files, rag_calls[t].resume_path) :
           rag_calls' = [rag_calls EXCEPT
                            ![t].document = doc,
                            ![t].pc = IF doc.page_nums = <<>> THEN "extracted" ELSE "read"]
    /\ UNCHANGED service

\* extract_text_from_pdf, lines 18-26: the next page of the document is loaded and its
\* text is read. The page is read from the file as it is at this moment; when its chunk
\* is no longer in the file, PyMuPDF raises unless it still holds the page in memory
PdfReadPage(t) ==
    /\ RagStep
    /\ rag_calls[t].pc = "read"
    /\ LET doc == rag_calls[t].document
           page_num == doc.page_nums[Len(doc.pages) + 1]
           name == file_name_of(rag_calls[t].resume_path)
       IN \E in_memory \in BOOLEAN :
          IF page_num \in chunks_at(files, rag_calls[t].resume_path) \/ in_memory
          THEN rag_calls' = [rag_calls EXCEPT
                                ![t].document.pages =
                                    Append(@, upload_document(name).pages[page_num]),
                                ![t].pc = IF Len(doc.pages) + 1 < Len(doc.page_nums)
                                          THEN "read" ELSE "extracted"]
          ELSE rag_calls' = [rag_calls EXCEPT
                                ![t].document.failure = "page",
                                ![t].document.failed_page = Len(doc.pages) + 1,
                                ![t].pc = "extracted"]
    /\ UNCHANGED service

\* the text extract_text_from_pdf returns for what it has read, and parse_resume on that
\* text (rag_service.py, lines 126-127, and views.py, lines 56-57)
ParseUpload(t) ==
    /\ RagStep
    /\ rag_calls[t].pc = "extracted"
    /\ \E parsed_data \in parse_resume(extract_text_from_pdf(rag_calls[t].document)) :
           rag_calls' = [rag_calls EXCEPT
                            ![t].parsed_data = parsed_data,
                            ![t].document = NoDocument,
                            ![t].pc = IF rag_calls[t].fallback THEN "fallback_parsed"
                                      ELSE "parsed"]
    /\ UNCHANGED service

\* line 130: resume_hash = self._get_resume_hash(resume_path), which reads the file as it
\* is at this moment
RagHash(t) ==
    /\ RagStep
    /\ rag_calls[t].pc = "parsed"
    /\ rag_calls' = [rag_calls EXCEPT
                        ![t].resume_hash = get_resume_hash(files, rag_calls[t].resume_path),
                        ![t].pc = "hashed"]
    /\ UNCHANGED service

\* line 133: `if resume_hash in self._model_cache`, on the cache as it is at this moment
RagTestCache(t) ==
    /\ RagStep
    /\ rag_calls[t].pc = "hashed"
    /\ rag_calls' = [rag_calls EXCEPT
                        ![t].pc = IF rag_calls[t].resume_hash \in DOMAIN service.model_cache
                                  THEN "hit" ELSE "miss"]
    /\ UNCHANGED service

\* line 135, the right-hand side: self._model_cache[resume_hash] is read
RagReadCached(t) ==
    /\ RagStep
    /\ rag_calls[t].pc = "hit"
    /\ rag_calls' = [rag_calls EXCEPT
                        ![t].pipeline = <<service.model_cache[rag_calls[t].resume_hash]>>,
                        ![t].pc = "read_cached"]
    /\ UNCHANGED service

\* line 135, the assignment: the pipeline that was read becomes self.rag_pipeline
RagUseCached(t) ==
    /\ RagStep
    /\ rag_calls[t].pc = "read_cached"
    /\ service' = [service EXCEPT !.rag_pipeline = rag_calls[t].pipeline]
    /\ rag_calls' = [rag_calls EXCEPT ![t].pipeline = <<>>, ![t].pc = "assigned"]

\* _load_global_model, line 56: `if self._global_model is None`; with a model in place
\* the function returns at once
RagTestModel(t) ==
    /\ RagStep
    /\ rag_calls[t].pc = "miss"
    /\ rag_calls' = [rag_calls EXCEPT
                        ![t].pc = IF service.global_model = <<>> THEN "loading"
                                  ELSE "returned"]
    /\ UNCHANGED service

\* _load_global_model, lines 64-92: pipeline(...) returns the model, which is assigned
\* to self._global_model, or raises, and the except clause assigns None
RagLoadModel(t) ==
    /\ RagStep
    /\ rag_calls[t].pc = "loading"
    /\ \E loads \in BOOLEAN :
           IF loads
           THEN /\ service' = [service EXCEPT !.global_model = <<"model">>]
                /\ rag_calls' = [rag_calls EXCEPT ![t].pc = "returned"]
           ELSE /\ service' = [service EXCEPT !.global_model = <<>>]
                /\ rag_calls' = [rag_calls EXCEPT ![t].pc = "load_fallback"]

\* _load_global_model, lines 95-114: pipeline(...) returns the fallback model, which is
\* assigned to self._global_model, or raises, and the except clause assigns None
RagLoadFallback(t) ==
    /\ RagStep
    /\ rag_calls[t].pc = "load_fallback"
    /\ \E loads \in BOOLEAN :
           service' = [service EXCEPT
                          !.global_model = IF loads THEN <<"model">> ELSE <<>>]
    /\ rag_calls' = [rag_calls EXCEPT ![t].pc = "returned"]

\* initialize_rag, lines 140-142: `if self._global_model is None: return False`
RagCheckModel(t) ==
    /\ RagStep
    /\ rag_calls[t].pc = "returned"
    /\ rag_calls' =
           IF service.global_model = <<>>
           THEN [rag_calls EXCEPT ![t].result = <<FALSE>>, ![t].pc = "done"]
           ELSE [rag_calls EXCEPT ![t].pc = "loaded"]
    /\ UNCHANGED service

\* line 146 up to the call: CareerRAGPipeline is called with the self._global_model of
\* this moment
RagBuild(t) ==
    /\ RagStep
    /\ rag_calls[t].pc = "loaded"
    /\ rag_calls' = [rag_calls EXCEPT ![t].cached_model = service.global_model,
                                      ![t].pc = "building"]
    /\ UNCHANGED service

\* line 146 from the return of the constructor: self.rag_pipeline is assigned the new
\* pipeline, or the constructor raises and initialize_rag returns from its except clause
RagAssignPipeline(t) ==
    /\ RagStep
    /\ rag_calls[t].pc = "building"
    /\ \E builds \in BOOLEAN :
           IF builds
           THEN /\ service' = [service EXCEPT
                                  !.rag_pipeline =
                                      <<CareerRAGPipeline(rag_calls[t].resume_path,
                                                          rag_calls[t].cached_model)>>]
                /\ rag_calls' = [rag_calls EXCEPT ![t].pc = "built"]
           ELSE /\ rag_calls' = [rag_calls EXCEPT ![t].result = <<FALSE>>,
                                                  ![t].pc = "done"]
                /\ UNCHANGED service

\* line 149, the right-hand side: self.rag_pipeline is read
RagReadPipeline(t) ==
    /\ RagStep
    /\ rag_calls[t].pc = "built"
    /\ rag_calls' = [rag_calls EXCEPT ![t].pipeline = service.rag_pipeline,
                                      ![t].pc = "caching"]
    /\ UNCHANGED service

\* line 149, the assignment: self._model_cache[resume_hash] is the pipeline that was read
RagCache(t) ==
    /\ RagStep
    /\ rag_calls[t].pc = "caching"
    /\ service' = [service EXCEPT
                      !.model_cache = cache_put(service.model_cache,
                                                rag_calls[t].resume_hash,
                                                rag_calls[t].pipeline[1])]
    /\ rag_calls' = [rag_calls EXCEPT ![t].pipeline = <<>>, ![t].pc = "cached"]

\* self.current_resume_path = resume_path
RagSetPath(t) ==
    /\ RagStep
    /\ rag_calls[t].pc \in {"assigned", "cached"}
    /\ service' = [service EXCEPT !.current_resume_path = <<rag_calls[t].resume_path>>]
    /\ rag_calls' = [rag_calls EXCEPT ![t].pc = "path_set"]

\* self.current_resume_data = parsed_data and return True
RagSetData(t) ==
    /\ RagStep
    /\ rag_calls[t].pc = "path_set"
    /\ service' = [service EXCEPT !.current_resume_data = <<rag_calls[t].parsed_data>>]
    /\ rag_calls' = [rag_calls EXCEPT ![t].result = <<TRUE>>, ![t].pc = "done"]

Init == InitParse(ResumeTexts)
Next == ParseSingleLine \/ ParseMultiLine
Spec == Init /\ [][Next]_vars

InitChain == InitParse(ChainTexts)
NextChain == ParseSingleLine
SpecChain == InitChain /\ [][NextChain]_vars

InitClean ==
    /\ skill \in SkillTexts
    /\ cleanings = <<>>
    /\ pc = "clean"
    /\ raw_text = <<>>
    /\ mode = "none"
    /\ parsed = <<>>
    /\ NoOtherCall
NextClean == CleanSkill
SpecClean == InitClean /\ [][NextClean]_vars

InitSections == InitParse(SectionTexts)
NextSections == ParseMultiLine
SpecSections == InitSections /\ [][NextSections]_vars

InitPdf ==
    /\ NoWebRequest
    /\ pdf \in PdfDocuments
    /\ pc = "pdf"
    /\ raw_text = <<>>
    /\ mode = "none"
    /\ parsed = <<>>
    /\ skill = <<>>
    /\ cleanings = <<>>
    /\ analysis = <<>>
    /\ calls = <<>>
    /\ header_line = <<>>
    /\ header_result = <<>>
NextPdf == ExtractText \/ ParseSingleLine \/ ParseMultiLine
SpecPdf == InitPdf /\ [][NextPdf]_vars

InitSkills == InitParse(SkillListTexts)
NextSkills ==
    \/ ParseSingleLine
    \/ ParseMultiLine
SpecSkills == InitSkills /\ [][NextSkills]_vars

InitProjects == InitParse(ProjectListTexts)
NextProjects == ParseSingleLine
SpecProjects == InitProjects /\ [][NextProjects]_vars

InitReview == InitParse(ReviewTexts)
NextReview ==
    \/ ParseSingleLine
    \/ AnalyzeQuality
SpecReview == InitReview /\ [][NextReview]_vars

\* is_section_header(line)
CheckHeader ==
    /\ pc = "line"
    /\ header_result' = is_section_header(header_line)
    /\ pc' = "checked"
    /\ UNCHANGED <<raw_text, mode, parsed, skill, cleanings, analysis, pdf, calls,
                   header_line,
                   web_vars>>

InitHeader ==
    /\ NoWebRequest
    /\ header_line \in HeaderLines
    /\ header_result = <<>>
    /\ pc = "line"
    /\ raw_text = <<>>
    /\ mode = "none"
    /\ parsed = <<>>
    /\ skill = <<>>
    /\ cleanings = <<>>
    /\ analysis = <<>>
    /\ pdf = <<>>
    /\ calls = <<>>
NextHeader == CheckHeader
SpecHeader == InitHeader /\ [][NextHeader]_vars

InitContact == InitParse(ContactTexts)
NextContact ==
    \/ ParseSingleLine
    \/ ParseMultiLine
SpecContact == InitContact /\ [][NextContact]_vars

InitCalls ==
    /\ NoWebRequest
    /\ calls \in {[t \in Threads |-> NewFrame(texts[t])] : texts \in [Threads -> CallTexts]}
    /\ pc = "calls"
    /\ raw_text = <<>>
    /\ mode = "none"
    /\ parsed = <<>>
    /\ skill = <<>>
    /\ cleanings = <<>>
    /\ analysis = <<>>
    /\ pdf = <<>>
    /\ header_line = <<>>
    /\ header_result = <<>>
NextCalls ==
    \E t \in Threads :
        \/ CallSplit(t)
        \/ CallSingleLine(t)
        \/ CallContact(t)
        \/ CallSections(t)
        \/ CallReturn(t)
SpecCalls == InitCalls /\ [][NextCalls]_vars

InitQuality ==
    /\ parsed \in QualityRecords
    /\ pc = "done"
    /\ raw_text = <<>>
    /\ mode = "none"
    /\ skill = <<>>
    /\ cleanings = <<>>
    /\ NoOtherCall
NextQuality == AnalyzeQuality
SpecQuality == InitQuality /\ [][NextQuality]_vars

\* the web process after start-up: the service as RAGService() leaves it, with the RAG
\* components importable or not, and browsers that have requested nothing
InitWeb ==
    /\ service \in {NewService(available) : available \in BOOLEAN}
    /\ sessions = [s \in Sessions |-> <<>>]
    /\ uploads = [s \in Sessions |-> <<>>]
    /\ response = <<>>
    /\ rag_calls = [s \in Sessions |-> IdleRagFrame]
    /\ pending = [s \in Sessions |-> NoView]
    /\ requests = 0
    /\ files = [name \in UploadNames |-> <<>>]
    /\ pc = "web"
    /\ raw_text = <<>>
    /\ mode = "none"
    /\ parsed = <<>>
    /\ skill = <<>>
    /\ cleanings = <<>>
    /\ analysis = <<>>
    /\ pdf = <<>>
    /\ calls = <<>>
    /\ header_line = <<>>
    /\ header_result = <<>>
NextWeb ==
    \/ SendResponse
    \/ \E s \in Sessions :
           \/ Home(s)
           \/ UploadResume(s)
           \/ UploadWrite(s)
           \/ UploadInitialized(s)
           \/ UploadFallback(s)
           \/ AnalyzeResume(s)
           \/ SkillsGapAnalysis(s)
           \/ CareerPaths(s)
           \/ CareerChat(s)
           \/ LearningRoadmap(s)
           \/ PerformanceStatus(s)
           \/ CacheInfoModel(s)
           \/ CacheInfoPipelines(s)
           \/ CacheInfoAvailable(s)
           \/ IsAvailable(s)
           \/ AskPipeline(s)
           \/ PipelineAnswers(s)
           \/ RagAvailable(s)
           \/ PdfOpen(s)
           \/ PdfReadPage(s)
           \/ ParseUpload(s)
           \/ RagHash(s)
           \/ RagTestCache(s)
           \/ RagReadCached(s)
           \/ RagUseCached(s)
           \/ RagTestModel(s)
           \/ RagLoadModel(s)
           \/ RagLoadFallback(s)
           \/ RagCheckModel(s)
           \/ RagBuild(s)
           \/ RagAssignPipeline(s)
           \/ RagReadPipeline(s)
           \/ RagCache(s)
           \/ RagSetPath(s)
           \/ RagSetData(s)
SpecWeb == InitWeb /\ [][NextWeb]_vars

\* the upload threads of the web process, each about to call initialize_rag on the file
\* its request has saved, on the service as RAGService() leaves it
InitRag ==
    /\ service \in {NewService(available) : available \in BOOLEAN}
    /\ rag_calls \in {[t \in Threads |-> NewRagFrame(file_path_of(names[t]))] :
                         names \in [Threads -> UploadNames]}
    /\ sessions = <<>>
    /\ uploads = <<>>
    /\ response = <<>>
    /\ pending = <<>>
    /\ requests = 0
    /\ files = [name \in UploadNames |-> <<chunks_of(name)>>]
    /\ pc = "rag"
    /\ raw_text = <<>>
    /\ mode = "none"
    /\ parsed = <<>>
    /\ skill = <<>>
    /\ cleanings = <<>>
    /\ analysis = <<>>
    /\ pdf = <<>>
    /\ calls = <<>>
    /\ header_line = <<>>
    /\ header_result = <<>>
NextRag ==
    \E t \in Threads :
        \/ RagAvailable(t)
        \/ PdfOpen(t)
        \/ PdfReadPage(t)
        \/ ParseUpload(t)
        \/ RagHash(t)
        \/ RagTestCache(t)
        \/ RagReadCached(t)
        \/ RagUseCached(t)
        \/ RagTestModel(t)
        \/ RagLoadModel(t)
        \/ RagLoadFallback(t)
        \/ RagCheckModel(t)
        \/ RagBuild(t)
        \/ RagAssignPipeline(t)
        \/ RagReadPipeline(t)
        \/ RagCache(t)
        \/ RagSetPath(t)
        \/ RagSetData(t)
SpecRag == InitRag /\ [][NextRag]_vars

----------------------------------------------------------------------------
(* Properties of the record parse_resume returns                           *)

section_keys ==
    {"education", "experience", "projects", "skills", "certifications",
     "achievements", "extracurricular"}

record_keys == section_keys \cup {"contact", "raw_text", "metadata"}

\* the section keys the record of the current mode is built with
mode_section_keys ==
    IF mode = "single" THEN section_keys ELSE Range(multi_line_keys)

\* the position of the first occurrence of sub in s, 0 when there is none
FirstOccurrence(s, sub) ==
    LET at == {i \in 1..(Len(s) - Len(sub) + 1) : StartsWithAt(s, i, sub)}
    IN IF at = {} THEN 0 ELSE Min(at)

\* C1: the skills of the returned record are listed in the order of their first
\* occurrence in the source text: of two entries that both occur in raw_text, the one
\* listed first occurs first.
SkillsInFirstOccurrenceOrder ==
    pc = "done" =>
        \A i, j \in 1..Len(parsed.skills) :
            (/\ i < j
             /\ Contains(raw_text, parsed.skills[i])
             /\ Contains(raw_text, parsed.skills[j]))
                => FirstOccurrence(raw_text, parsed.skills[i])
                       <= FirstOccurrence(raw_text, parsed.skills[j])

\* C2: the skills of the returned record contain no two equal strings, in both modes.
SkillsHaveNoDuplicates ==
    pc = "done" =>
        \A i, j \in 1..Len(parsed.skills) :
            parsed.skills[i] = parsed.skills[j] => i = j

\* a multi-line parse in which two different candidates clean to the same skill, which
\* the returned list holds beside another skill
DuplicateCandidateListedOnce ==
    /\ pc = "done"
    /\ mode = "multi"
    /\ Len(parsed.skills) >= 2
    /\ LET candidates ==
               SkillSet(locate_section(stripped_lines(raw_text), SKILLS, skills_keywords))
       IN \E a, b \in candidates :
              /\ a /= b
              /\ clean_skill(a) = clean_skill(b)
              /\ clean_skill(a) \in Range(parsed.skills)

\* C3: every string of every section of the returned record is non-empty after
\* trimming, whichever strategy produced the section.
SectionItemsNonEmptyAfterTrim ==
    pc = "done" =>
        \A k \in section_keys \cap DOMAIN parsed :
            \A i \in 1..Len(parsed[k]) : strip(parsed[k][i]) /= <<>>

\* C4: metadata.sections_found lists exactly the section keys of the mode whose
\* sequence is non-empty, each once.
SectionsFoundAreTheNonEmptySections ==
    pc = "done" =>
        LET found == parsed.metadata.sections_found
        IN /\ Range(found) = {k \in mode_section_keys : parsed[k] /= <<>>}
           /\ \A i, j \in 1..Len(found) : found[i] = found[j] => i = j

\* a parse that found some sections and left others empty
SomeSectionsFoundSomeEmpty ==
    /\ pc = "done"
    /\ parsed.metadata.sections_found /= <<>>
    /\ \E k \in mode_section_keys : parsed[k] = <<>>

\* C5: the text is parsed in single-line mode (the metadata carry total_characters)
\* exactly when it has 3 or fewer non-empty lines.
SingleLineIffFewNonEmptyLines ==
    pc = "done" =>
        ("total_characters" \in DOMAIN parsed.metadata
            <=> Len(stripped_lines(raw_text)) <= SingleLineMaxLines)

\* C6: the returned record has all ten keys, in both modes.
RecordHasAllKeys == pc = "done" => DOMAIN parsed = record_keys

\* the words of s that start with a capital letter, commas dropped
NamedSkills(s) ==
    LET spaced == [i \in 1..Len(s) |-> IF s[i] = "," THEN " " ELSE s[i]]
    IN {w \in Range(split_ws(spaced)) : w /= <<>> /\ w[1] \in Upper}

\* C7: for a text "EDUCATION e SKILLS s PROJECTS p" the education is non-empty and
\* taken from e, the skills include those named in s, and the projects are non-empty.
ThreeSectionChainIsExtracted ==
    \A e \in EducationTexts, s \in SkillsTexts, p \in ProjectsTexts :
        (/\ pc = "done"
         /\ raw_text = Join(<<Segment(EDUCATION, e), Segment(SKILLS, s),
                              Segment(PROJECTS, p)>>, <<" ">>))
            => /\ parsed.education /= <<>>
               /\ \A i \in 1..Len(parsed.education) : Contains(e, parsed.education[i])
               /\ NamedSkills(s) \subseteq Range(parsed.skills)
               /\ parsed.projects /= <<>>

\* the header keywords of the chain with the keys of their sections
chain ==
    <<[key |-> "education", header |-> EDUCATION],
      [key |-> "skills", header |-> SKILLS],
      [key |-> "projects", header |-> PROJECTS],
      [key |-> "certifications", header |-> CERTIFICATIONS],
      [key |-> "achievements", header |-> ACHIEVEMENTS],
      [key |-> "extracurricular", header |-> EXTRACURRICULAR]>>

\* C8: in single-line mode no item of a section holds a header keyword that comes
\* later in the chain: the section's content ended before it.
SectionEndsBeforeLaterHeader ==
    pc = "done" /\ mode = "single" =>
        \A a, b \in 1..Len(chain) :
            a < b =>
                \A i \in 1..Len(parsed[chain[a].key]) :
                    ~Contains(upper(parsed[chain[a].key][i]), chain[b].header)

\* C9: clean_skill applied to its own result returns it unchanged.
CleanSkillIdempotent ==
    Len(cleanings) >= 2 => cleanings[2] = cleanings[1]

\* C10: for a text of nothing but whitespace the record has every section empty, no
\* contact field, no section found and contact_info_found false.
BlankTextGivesEmptyRecord ==
    pc = "done" /\ strip(raw_text) = <<>> =>
        /\ \A k \in section_keys \cap DOMAIN parsed : parsed[k] = <<>>
        /\ DOMAIN parsed.contact = {}
        /\ parsed.metadata.sections_found = <<>>
        /\ parsed.metadata.contact_info_found = FALSE

\* a text of blank lines only, parsed by the multi-line branch
BlankLinesParsed ==
    /\ pc = "done"
    /\ mode = "multi"
    /\ raw_text /= <<>>
    /\ strip(raw_text) = <<>>

----------------------------------------------------------------------------
(* Properties of analyze_resume_quality                                    *)

\* the core sections of the analysed record that hold at least one entry
NonEmptyCore == {k \in core_keys : k \in DOMAIN parsed /\ parsed[k] /= <<>>}

core_order == <<"education", "experience", "projects", "skills">>

core_names ==
    [education |-> <<"E", "d", "u", "c", "a", "t", "i", "o", "n">>,
     experience |-> <<"E", "x", "p", "e", "r", "i", "e", "n", "c", "e">>,
     projects |-> <<"P", "r", "o", "j", "e", "c", "t", "s">>,
     skills |-> <<"S", "k", "i", "l", "l", "s">>]

\* the number a string of decimal digits denotes
RECURSIVE DecimalValue(_)
DecimalValue(ds) ==
    IF ds = <<>> THEN 0
    ELSE 10 * DecimalValue(SubSeq(ds, 1, Len(ds) - 1))
             + (CHOOSE d \in 0..9 : DigitSeq[d + 1] = ds[Len(ds)])

\* C11: completeness_score is 25 times the number of non-empty core sections, hence
\* one of 0, 25, 50, 75, 100.
CompletenessScoreIs25PerSection ==
    pc = "analyzed" =>
        /\ analysis.completeness_score = 25 * Cardinality(NonEmptyCore)
        /\ analysis.completeness_score \in {0, 25, 50, 75, 100}

\* an analysis of a record with three of the four core sections filled
ThreeSectionsScored ==
    /\ pc = "analyzed"
    /\ Cardinality(NonEmptyCore) = 3
    /\ analysis.completeness_score = 75

\* C12: missing_sections names exactly the empty or absent core sections, strengths has
\* one entry per non-empty core section, and the skills entry states the length of the
\* skills sequence.
CoreSectionsPartitioned ==
    pc = "analyzed" =>
        LET IsMissing(k) == k \notin NonEmptyCore
            missing_keys == SelectSeq(core_order, IsMissing)
            prefix == <<"S", "k", "i", "l", "l", "s", " ", "f", "o", "u", "n", "d", " ", "(">>
            suffix == <<" ", "s", "k", "i", "l", "l", "s", ")">>
            last == analysis.strengths[Len(analysis.strengths)]
        IN /\ analysis.missing_sections
                  = [i \in 1..Len(missing_keys) |-> core_names[missing_keys[i]]]
           /\ Len(analysis.strengths) = Cardinality(NonEmptyCore)
           /\ "skills" \in NonEmptyCore =>
                  /\ Len(last) > Len(prefix) + Len(suffix)
                  /\ SubSeq(last, 1, Len(prefix)) = prefix
                  /\ SubSeq(last, Len(last) - Len(suffix) + 1, Len(last)) = suffix
                  /\ \A i \in (Len(prefix) + 1)..(Len(last) - Len(suffix)) :
                         last[i] \in Digit
                  /\ DecimalValue(SubSeq(last, Len(prefix) + 1, Len(last) - Len(suffix)))
                         = Len(parsed.skills)

\* an analysis of a record with several skills, an absent section and an empty one
SkillsCountedBesideMissingSections ==
    /\ pc = "analyzed"
    /\ "skills" \in DOMAIN parsed
    /\ Len(parsed.skills) >= 2
    /\ "education" \notin DOMAIN parsed
    /\ "projects" \in DOMAIN parsed
    /\ parsed.projects = <<>>
    /\ Len(analysis.strengths) >= 1

\* C13: the completeness recommendation is given exactly when the score is below 75, the
\* skills recommendation exactly when there are fewer than 5 skills, the projects
\* recommendation exactly when there are fewer than 2 projects, and nothing else is
\* recommended.
RecommendationsFollowThresholds ==
    pc = "analyzed" =>
        LET given == analysis.recommendations
            count(k) == IF k \in DOMAIN parsed THEN Len(parsed[k]) ELSE 0
        IN /\ completeness_recommendation \in Range(given)
                  <=> analysis.completeness_score < 75
           /\ skills_recommendation \in Range(given) <=> count("skills") < 5
           /\ projects_recommendation \in Range(given) <=> count("projects") < 2
           /\ Range(given) \subseteq {completeness_recommendation,
                                      skills_recommendation, projects_recommendation}
           /\ \A i, j \in 1..Len(given) : given[i] = given[j] => i = j

\* an analysis with score 100 that still recommends more skills and more projects
FullScoreStillAdvised ==
    /\ pc = "analyzed"
    /\ analysis.completeness_score = 100
    /\ analysis.recommendations = <<skills_recommendation, projects_recommendation>>

----------------------------------------------------------------------------
(* Properties of the multi-line section strategies                         *)

\* the line contains the section's name in upper, title or lower case
NamesSection(l, section_name) ==
    \/ Contains(l, upper(section_name))
    \/ Contains(l, title(section_name))
    \/ Contains(l, lower(section_name))

\* a line of a section's body: neither a header line nor one that names the section
BodyLine(l, section_name) ==
    ~is_section_header(l) /\ ~NamesSection(l, section_name)

\* the first of `lines` that names the section, 0 when none does
FirstNaming(lines, section_name) ==
    LET naming == {i \in 1..Len(lines) : NamesSection(lines[i], section_name)}
    IN IF naming = {} THEN 0 ELSE Min(naming)

\* the items of a labelled list "Label: a, b, c"
ListedItems(l) == SelectMap(split(AfterColon(l), ","), StripNonEmpty, strip)

\* a string that cleaning leaves as it is and that is long enough to be kept
PlainSkill(s) == clean_skill(s) = s /\ Len(s) > SkillMinLen

\* C14: in multi-line mode, when the first line naming EDUCATION, EXPERIENCE or PROJECTS
\* is followed by k >= 1 body lines and then by a header line, the section is exactly
\* those k lines in order; and a labelled list right after the first line naming SKILLS
\* gives its items as skills, without the label.
HeaderedSectionIsItsBodyLines ==
    pc = "done" /\ mode = "multi" =>
        LET lines == stripped_lines(raw_text)
            Exactly(section_name, key) ==
                LET f == FirstNaming(lines, section_name)
                IN \A h \in 1..Len(lines) :
                       (/\ f > 0
                        /\ h > f + 1
                        /\ \A j \in (f + 1)..(h - 1) : BodyLine(lines[j], section_name)
                        /\ is_section_header(lines[h]))
                           => parsed[key] = SubSeq(lines, f + 1, h - 1)
            s == FirstNaming(lines, SKILLS)
        IN /\ Exactly(EDUCATION, "education")
           /\ Exactly(EXPERIENCE, "experience")
           /\ Exactly(PROJECTS, "projects")
           /\ (/\ s > 0
               /\ s < Len(lines)
               /\ BodyLine(lines[s + 1], SKILLS)
               /\ Contains(lines[s + 1], <<":">>)
               /\ \A i \in 1..Len(ListedItems(lines[s + 1])) :
                      PlainSkill(ListedItems(lines[s + 1])[i]))
                  => /\ Range(ListedItems(lines[s + 1])) \subseteq Range(parsed.skills)
                     /\ \A i \in 1..Len(parsed.skills) :
                            ~Contains(parsed.skills[i], <<":">>)

----------------------------------------------------------------------------
(* Properties of the PDF text extraction                                   *)

\* C15: when reading the PDF fails, extract_text_from_pdf returns the empty string, and
\* parse_resume of that result returns a record with every section empty, no contact
\* field and no section found.
FailedExtractionGivesEmptyRecord ==
    (pdf /= <<>> /\ pdf.failure /= "none") =>
        /\ pc \in {"start", "done"} => raw_text = <<>>
        /\ pc = "done" =>
               /\ \A k \in section_keys \cap DOMAIN parsed : parsed[k] = <<>>
               /\ DOMAIN parsed.contact = {}
               /\ parsed.metadata.sections_found = <<>>

\* a parse after an extraction that failed on a later page, the pages before it having
\* given some text
ParsedAfterFailureMidDocument ==
    /\ pc = "done"
    /\ pdf.failure = "page"
    /\ pdf.failed_page >= 2
    /\ strip(text_after(pdf.pages, pdf.failed_page - 1)) /= <<>>

----------------------------------------------------------------------------
(* Properties of concurrent parse_resume calls                             *)

\* C16: whatever the interleaving of the calls, each call returns a record it can
\* return when run alone on its argument, and the raw_text of that record is its own
\* argument.
EachCallReturnsItsOwnParse ==
    \A t \in DOMAIN calls :
        calls[t].pc = "done" =>
            /\ calls[t].result \in parse_resume(calls[t].raw_text)
            /\ calls[t].result.raw_text = calls[t].raw_text

\* a call has returned the record of its multi-line text while another call, given a
\* different multi-line text, is between its steps
ReturnedWhileAnotherCallRuns ==
    \E t, u \in DOMAIN calls :
        /\ calls[t].pc = "done"
        /\ calls[u].pc = "skills"
        /\ calls[t].raw_text /= calls[u].raw_text
        /\ ~is_single_line(calls[t].raw_text)
        /\ calls[t].result.skills /= <<>>

----------------------------------------------------------------------------
(* Properties of the contact mapping                                       *)

\* the positions of s at which each contact pattern matches
UsPhoneStarts(s) == {j \in 1..Len(s) : MatchUsPhone(s, j) > j}
IntlPhoneStarts(s) == {j \in 1..Len(s) : MatchIntlPhone(s, j) > j}
EmailStarts(s) == {j \in 1..Len(s) : MatchEmail(s, j) > j}
LinkedinStarts(s) == {j \in 1..Len(s) : MatchLinkedin(s, j) > j}

contact_fields == {"email", "phone", "linkedin"}

\* C17: the contact mapping of a parsed text has a key only when the corresponding
\* pattern matched, and no value is the empty string; the phone is the first match of
\* the North-American pattern when that pattern matches anywhere in the text and
\* otherwise the first match of the international pattern; contact_info_found is true
\* exactly when the mapping has a key.
ContactHoldsMatchedFieldsOnly ==
    pc = "done" =>
        LET contact == parsed.contact
            us == UsPhoneStarts(raw_text)
            intl == IntlPhoneStarts(raw_text)
        IN /\ DOMAIN contact \subseteq contact_fields
           /\ \A k \in DOMAIN contact : contact[k] /= <<>>
           /\ "email" \in DOMAIN contact <=> EmailStarts(raw_text) /= {}
           /\ "linkedin" \in DOMAIN contact <=> LinkedinStarts(raw_text) /= {}
           /\ "phone" \in DOMAIN contact <=> (us \cup intl) /= {}
           /\ us /= {} =>
                  contact.phone = Slice(raw_text, Min(us), MatchUsPhone(raw_text, Min(us)))
           /\ (us = {} /\ intl /= {}) =>
                  contact.phone =
                      Slice(raw_text, Min(intl), MatchIntlPhone(raw_text, Min(intl)))
           /\ parsed.metadata.contact_info_found <=> DOMAIN contact /= {}

\* a multi-line text was parsed in which the international pattern matches before the
\* North-American one, and the phone kept is the North-American match
NorthAmericanPhoneKeptOverEarlierInternational ==
    /\ pc = "done"
    /\ mode = "multi"
    /\ UsPhoneStarts(raw_text) /= {}
    /\ IntlPhoneStarts(raw_text) /= {}
    /\ Min(IntlPhoneStarts(raw_text)) < Min(UsPhoneStarts(raw_text))
    /\ "email" \notin DOMAIN parsed.contact
    /\ parsed.metadata.contact_info_found

----------------------------------------------------------------------------
(* Properties of the end of a section                                      *)

\* the header lines after line f
HeadersAfter(lines, f) == {h \in (f + 1)..Len(lines) : is_section_header(lines[h])}

\* the lines f+1 .. h-1 that do not name the section
CollectedBetween(lines, f, h, section_name) ==
    LET Collected(l) == ~NamesSection(l, section_name)
    IN SelectSeq(SubSeq(lines, f + 1, h - 1), Collected)

section_names == {EDUCATION, EXPERIENCE, PROJECTS, SKILLS}

\* C18: once the simple strategy has found the target section, collection ends at the
\* first later header line, whatever section that header names (the target section
\* included), and no line after that header is in the result.
SimpleCollectionEndsAtFirstHeader ==
    pc = "done" /\ mode = "multi" =>
        LET lines == stripped_lines(raw_text)
        IN \A section_name \in section_names :
               LET f == FirstNaming(lines, section_name)
               IN (f > 0 /\ HeadersAfter(lines, f) /= {}) =>
                      extract_section_simple(lines, section_name) =
                          CollectedBetween(lines, f, Min(HeadersAfter(lines, f)),
                                           section_name)

----------------------------------------------------------------------------
(* Properties of the choice between the two section strategies             *)

\* the simple result when it is non-empty, the advanced result otherwise
FirstNonEmpty(simple, advanced) == IF simple /= <<>> THEN simple ELSE advanced

\* C19: in multi-line mode each of education, experience and projects is the simple
\* strategy's result when that result is non-empty and the advanced strategy's result
\* otherwise, and the skills are extracted from the block chosen in the same way; each
\* value depends on the lines and on its own section's two results only.
SimpleResultWinsPerSection ==
    pc = "done" /\ mode = "multi" =>
        LET lines == stripped_lines(raw_text)
        IN /\ parsed.education =
                  FirstNonEmpty(extract_section_simple(lines, EDUCATION),
                                extract_section_advanced(lines, education_keywords))
           /\ parsed.experience =
                  FirstNonEmpty(extract_section_simple(lines, EXPERIENCE),
                                extract_section_advanced(lines, experience_keywords))
           /\ parsed.projects =
                  FirstNonEmpty(extract_section_simple(lines, PROJECTS),
                                extract_section_advanced(lines, projects_keywords))
           /\ parsed.skills \in
                  extract_skills_advanced(
                      FirstNonEmpty(extract_section_simple(lines, SKILLS),
                                    extract_section_advanced(lines, skills_keywords)))

\* a record whose education comes from the advanced strategy, the simple one having
\* found nothing, and whose skills come from the simple strategy although the advanced
\* one gives another block
EducationAdvancedSkillsSimple ==
    /\ pc = "done"
    /\ mode = "multi"
    /\ extract_section_simple(stripped_lines(raw_text), EDUCATION) = <<>>
    /\ parsed.education /= <<>>
    /\ extract_section_simple(stripped_lines(raw_text), SKILLS) /= <<>>
    /\ extract_section_advanced(stripped_lines(raw_text), skills_keywords)
           /= extract_section_simple(stripped_lines(raw_text), SKILLS)
    /\ parsed.skills /= <<>>

----------------------------------------------------------------------------
(* Properties of is_section_header                                         *)

\* the trimmed, lowercased line is one of the known section names
InVocabulary(l) == \E name \in section_headers : lower(strip(l)) = name

\* the line has a letter and none of its letters is lowercase
EntirelyUppercase(l) ==
    /\ \E i \in 1..Len(l) : l[i] \in Upper
    /\ \A i \in 1..Len(l) : l[i] \notin Lower

\* an uppercase letter followed only by uppercase letters and spaces
CapitalsAndSpaces(l) ==
    /\ l /= <<>>
    /\ l[1] \in Upper
    /\ \A i \in 2..Len(l) : l[i] \in Upper \cup {" "}

WordCount(l) == Len(split_ws(strip(l)))

\* C20: is_section_header(line) is true exactly when the trimmed, lowercased line is one
\* of the 16 known section names, or the line has at most 4 words and is entirely
\* uppercase or an uppercase letter followed only by uppercase letters and spaces; a line
\* of 5 or more words outside the vocabulary, and a line with a lowercase letter outside
\* the vocabulary, is never a header.
HeaderIffVocabularyOrShortCapitals ==
    pc = "checked" =>
        LET l == strip(header_line)
        IN /\ Cardinality(section_headers) = 16
           /\ header_result <=>
                  \/ InVocabulary(header_line)
                  \/ /\ WordCount(header_line) <= 4
                     /\ (EntirelyUppercase(l) \/ CapitalsAndSpaces(l))
           /\ (WordCount(header_line) >= 5 /\ ~InVocabulary(header_line))
                  => ~header_result
           /\ ((\E i \in 1..Len(l) : l[i] \in Lower) /\ ~InVocabulary(header_line))
                  => ~header_result

\* a padded line of four words, one of them a number, was accepted as a header
FourWordUppercaseLineAccepted ==
    /\ pc = "checked"
    /\ header_result
    /\ header_line /= strip(header_line)
    /\ WordCount(header_line) = 4
    /\ ~CapitalsAndSpaces(strip(header_line))

----------------------------------------------------------------------------
(* Properties of the skills extractors                                     *)

\* C21: in single-line and in multi-line mode no entry of the skills of a parsed record
\* has fewer than 2 characters.
NoSkillShorterThanTwo ==
    pc = "done" =>
        \A i \in 1..Len(parsed.skills) : Len(parsed.skills[i]) >= 2

\* the item list of a text that is the SKILLS header followed by one list
ItemListOf(raw) == strip(SubSeq(raw, Len(SKILLS) + 1, Len(raw)))

\* the separators in their order of priority: comma, semicolon, pipe, ampersand
priority_separators == <<",", ";", "|", "&">>

\* the trimmed non-empty parts of the list split on the first separator, in that order
\* of priority, that occurs in it; the list itself when none occurs
PartsOnFirstSeparator(list) ==
    LET k == FirstSeparator(list, priority_separators)
    IN IF k = 0 THEN <<list>> ELSE SplitParts(list, priority_separators[k])

\* the strings of at least two characters among the cleaned forms of a sequence
KeptSkills(items) ==
    {clean_skill(items[i]) : i \in {j \in 1..Len(items) : Len(clean_skill(items[j])) >= 2}}

\* C22: in single-line and in multi-line mode the skills of a parsed list are the cleaned
\* parts of the list split on one separator, the first of comma, semicolon, pipe and
\* ampersand that occurs in it, so that a list with an ampersand and none of the others
\* is split on the ampersand and separators of lower priority stay inside the items
\* (entries of one character, the subject of C21, are left aside, and so are the lists
\* that multi-line mode takes for a header line and never hands to the extractor).
ListSplitOnFirstSeparatorByPriority ==
    (pc = "done" /\ (mode = "multi" => ~is_section_header(ItemListOf(raw_text)))) =>
        KeptSkills(parsed.skills) = KeptSkills(PartsOnFirstSeparator(ItemListOf(raw_text)))

----------------------------------------------------------------------------
(* Properties of the projects of single-line mode                          *)

\* the strings of `names` occur in s from position i on, one starting after the other
RECURSIVE OccurInOrderFrom(_, _, _)
OccurInOrderFrom(s, names, i) ==
    IF names = <<>> THEN TRUE
    ELSE LET at == {j \in i..Len(s) : StartsWithAt(s, j, Head(names))}
         IN at /= {} /\ OccurInOrderFrom(s, Tail(names), Min(at) + 1)

\* the names longer than 3 characters that the two project patterns find in the projects
\* block of a text
PatternNames(raw) ==
    LET block == section_content(raw, "projects")
    IN IF block = <<>> THEN {}
       ELSE {SectionSignGroup(m) : m \in Range(FindAllFrom(MatchSectionSign, block[1], 1))}
                \cup {ToolsGroup(m) : m \in Range(FindAllFrom(MatchTools, block[1], 1))}

LongNames(raw) == {n \in PatternNames(raw) : Len(n) > 3}

\* C23: in single-line mode the projects are listed in the order in which they appear in
\* the text, each once, whichever of the two patterns recognised them; and the fragments
\* between bullets are used only when neither pattern gives a name longer than 3
\* characters.
ProjectsInSourceOrder ==
    pc = "done" /\ mode = "single" =>
        /\ OccurInOrderFrom(raw_text, parsed.projects, 1)
        /\ \A i, j \in 1..Len(parsed.projects) :
               i < j => parsed.projects[i] /= parsed.projects[j]
        /\ LongNames(raw_text) /= {} => Range(parsed.projects) = LongNames(raw_text)

----------------------------------------------------------------------------
(* Properties of the lines that name the target section                    *)

\* the lowercased line contains one of the section's keywords
HasKeyword(l, section_keywords) ==
    \E k \in 1..Len(section_keywords) : Contains(strip(lower(l)), section_keywords[k])

\* the lines after the first of `lines` that satisfies Target, up to the first header
\* line that does not satisfy it (or to the end), without those that satisfy it
BodyPastTargetLines(lines, Target(_)) ==
    LET targets == {i \in 1..Len(lines) : Target(lines[i])}
        f == Min(targets)
        stops == {h \in (f + 1)..Len(lines) : is_section_header(lines[h]) /\ ~Target(lines[h])}
        e == IF stops = {} THEN Len(lines) + 1 ELSE Min(stops)
        Other(l) == ~Target(l)
    IN IF targets = {} THEN <<>> ELSE SelectSeq(SubSeq(lines, f + 1, e - 1), Other)

section_keywords_of ==
    <<education_keywords, experience_keywords, projects_keywords, skills_keywords>>

section_name_of == <<EDUCATION, EXPERIENCE, PROJECTS, SKILLS>>

\* C24: in the simple and in the advanced strategy a line that contains the target
\* section's name or keyword is never part of the content and never ends the collection,
\* also in the middle of the body and also when it is a header line: the content is made
\* of the other lines up to the first header line that does not contain it.
TargetLinesAreSkipped ==
    pc = "done" /\ mode = "multi" =>
        LET lines == stripped_lines(raw_text)
        IN \A s \in 1..Len(section_name_of) :
               LET Named(l) == NamesSection(l, section_name_of[s])
                   Keyed(l) == HasKeyword(l, section_keywords_of[s])
               IN /\ extract_section_simple(lines, section_name_of[s])
                         = BodyPastTargetLines(lines, Named)
                  /\ extract_section_advanced(lines, section_keywords_of[s])
                         = CleanedSection(BodyPastTargetLines(lines, Keyed))

\* the education of a parsed text holds the line before and the line after a header line
\* that names EDUCATION again
CollectedAcrossRepeatedHeader ==
    /\ pc = "done"
    /\ mode = "multi"
    /\ \E i, j, k \in 1..Len(stripped_lines(raw_text)) :
           /\ i < j
           /\ j < k
           /\ NamesSection(stripped_lines(raw_text)[j], EDUCATION)
           /\ is_section_header(stripped_lines(raw_text)[j])
           /\ parsed.education = <<stripped_lines(raw_text)[i], stripped_lines(raw_text)[k]>>

----------------------------------------------------------------------------
(* Properties of experience in single-line mode                            *)

Experience == <<"E", "x", "p", "e", "r", "i", "e", "n", "c", "e">>

\* C25: a record produced in single-line mode has an empty experience whatever the text
\* holds, sections_found does not list experience, and its analysis lists Experience
\* as missing and has a completeness score of at most 75.
SingleLineNeverHasExperience ==
    mode = "single" =>
        /\ pc \in {"done", "analyzed"} =>
               /\ parsed.experience = <<>>
               /\ "experience" \notin Range(parsed.metadata.sections_found)
        /\ pc = "analyzed" =>
               /\ Experience \in Range(analysis.missing_sections)
               /\ analysis.completeness_score <= 75

\* the analysis of a single-line record whose text names EXPERIENCE and whose three
\* other core sections were found
ExperienceTextScoredAt75 ==
    /\ mode = "single"
    /\ pc = "analyzed"
    /\ Contains(raw_text, EXPERIENCE)
    /\ analysis.completeness_score = 75

----------------------------------------------------------------------------
(* Properties of the lines of the text of a PDF                            *)

\* C26: the text extract_text_from_pdf returns for a document of N pages has at most N
\* newline-separated lines (none at all for a document without pages), so parse_resume of
\* the text of a document of 3 or fewer pages runs in single-line mode and multi-line
\* mode is reached only for documents of 4 or more pages.
PdfTextHasAtMostOneLinePerPage ==
    (pdf /= <<>> /\ pc \in {"start", "done"}) =>
        /\ Len(pdf.pages) = 0 => raw_text = <<>>
        /\ Len(pdf.pages) >= 1 => Len(split(raw_text, "\n")) <= Len(pdf.pages)
        /\ pc = "done" =>
               /\ Len(pdf.pages) <= 3 => mode = "single"
               /\ mode = "multi" => Len(pdf.pages) >= 4

\* the text of a four-page document, one page of which holds a line break, was parsed in
\* multi-line mode
FourPagesParsedMultiLine ==
    /\ pc = "done"
    /\ mode = "multi"
    /\ Len(pdf.pages) = 4
    /\ \E i \in 1..Len(pdf.pages) : IndexFrom(pdf.pages[i], 1, "\n") /= 0

----------------------------------------------------------------------------
(* Properties of the rule-based skills gap analysis                        *)

\* the response is a skills gap analysis made by the rules
RuleBasedAnalysisServed ==
    /\ response /= <<>>
    /\ response.request.view = "skills_gap_analysis"
    /\ response.reply.to = "career_advisor/skills_gap.html"
    /\ ~response.reply.context.rag_used

\* C30: in a rule-based skills gap analysis, a skill of the target role that is among the
\* skills of the resume in the same spelling and case is not in missing_skills, every
\* entry of missing_skills is a skill of the target role that the resume does not have,
\* and missing_skills is empty for a role that is not in the table of roles
MissingSkillsAreTheAbsentTargetSkills ==
    RuleBasedAnalysisServed =>
        LET context == response.reply.context
            resume_skills == Range(get(context.resume_data, "skills", <<>>))
            target_skills == Range(target_skills_of(context.target_role))
            missing_skills == Range(context.analysis.missing_skills)
        IN /\ missing_skills = target_skills \ resume_skills
           /\ lower(context.target_role) \notin Range(role_names) => missing_skills = {}

----------------------------------------------------------------------------
(* Properties of the resume the views work on                              *)

\* upload_resume has answered an upload with a redirect to the analysis view
UploadRedirectedToAnalysis ==
    /\ response /= <<>>
    /\ response.request.view = "upload_resume"
    /\ response.reply.to = "career_advisor:analyze_resume"

\* the responses the views that show a resume give to a GET of a session in this state
resume_views(session) ==
    {analyze_resume(service, session),
     skills_gap_analysis(service, session, <<>>, TRUE),
     career_paths(service, session),
     career_chat(service, session, <<>>, TRUE),
     learning_roadmap(service, session)}

\* C27: when upload_resume answers an upload with a redirect to the analysis view, the
\* resume data analyze_resume and the skills gap, career path, chat and roadmap views
\* then use for that session is the data parsed from the file just uploaded, also when
\* initialize_rag failed for it after it had succeeded for an earlier upload
ViewsUseTheFileUploadedLast ==
    UploadRedirectedToAnalysis =>
        LET file_path == file_path_of(response.request.posted[1].resume)
        IN \A reply \in resume_views(sessions[response.request.session]) :
               /\ reply.status = "render"
               /\ reply.context.resume_data \in uploaded_data(file_path)

----------------------------------------------------------------------------
(* Properties of the sessions                                              *)

\* the views that show or use a resume
ResumeViewNames ==
    {"analyze_resume", "skills_gap_analysis", "career_paths", "career_chat",
     "learning_roadmap"}

\* one of those views has answered a browser that has uploaded nothing so far
AnsweredWithoutOwnUpload ==
    /\ response /= <<>>
    /\ response.request.view \in ResumeViewNames
    /\ uploads[response.request.session] = <<>>

\* C28: a session that has uploaded no resume is redirected to the home page by
\* analyze_resume, skills_gap_analysis, career_paths, career_chat and learning_roadmap,
\* whatever the other sessions have uploaded, so it is shown no resume of another
\* session and no answer made from one
SessionWithoutUploadIsSentHome ==
    AnsweredWithoutOwnUpload =>
        /\ response.reply.status = "redirect"
        /\ response.reply.to = "career_advisor:home"

----------------------------------------------------------------------------
(* Properties of concurrent initialize_rag calls                           *)

\* the calls were made for different resumes and each has returned True
DifferentResumesInitialized ==
    /\ pc = "rag"
    /\ \A t \in Threads : rag_calls[t].pc = "done" /\ rag_calls[t].result = <<TRUE>>
    /\ \A t1 \in Threads, t2 \in Threads :
           t1 /= t2 => rag_calls[t1].resume_path /= rag_calls[t2].resume_path

\* C29: when concurrent initialize_rag calls for different resumes have all returned
\* True, the pipeline, the path and the parsed data the service holds are those of one
\* of the resumes
ServiceHoldsOneResume ==
    DifferentResumesInitialized =>
        \E t \in Threads :
            /\ service.rag_pipeline /= <<>>
            /\ service.rag_pipeline[1].pdf_path = rag_calls[t].resume_path
            /\ service.current_resume_path = <<rag_calls[t].resume_path>>
            /\ service.current_resume_data = <<rag_calls[t].parsed_data>>

====
